---- MODULE Spec2Model ----
(***************************************************************************)
(* parse_wiktionary_en: the second pass that turns the node sequence of    *)
(* parse_wiki_text into language / etymology / part-of-speech entries and  *)
(* a list of warnings.                                                     *)
(*                                                                         *)
(* Strings are sequences of chunks (a chunk stands for a run of            *)
(* characters): concatenation is \o, slicing is SubSeq, starts_with is a   *)
(* prefix test.  Byte offsets are chunk offsets into wiki_text.            *)
(* Option<T> is a sequence of length 0 (None) or 1 (Some).                 *)
(***************************************************************************)
EXTENDS Integers, Sequences, FiniteSets, TLC

VARIABLES
    nodes,              \* parse: the `nodes` argument (top-level siblings)
    context,            \* util.rs Context: language, warnings, wiki_text
    language_entries,   \* parse: the output vector being built
    stack,              \* the active parser calls, innermost last
    output,             \* Some(Output) once parse has returned
    visits,             \* per top-level node: how often a cursor moved past it
    returned,           \* the last section parser that returned: fn, base, count
    calls,              \* number of parse calls started on this input
    previous            \* Output of the previous parse call on this input

vars == <<nodes, context, language_entries, stack, output, visits, returned,
          calls, previous>>

None == <<>>
Some(x) == <<x>>
IsSome(o) == o # <<>>
Str(s) == <<s>>

----------------------------------------------------------------------------
(* Nodes of parse_wiki_text.  One record shape for every node kind:        *)
(*   Text: value; CharacterEntity: value = the character;                  *)
(*   Heading: level, nodes; Link: value = target, nodes = text;            *)
(*   Tag: value = name; Template: nodes = name, parameters;                *)
(*   OrderedList / UnorderedList / DefinitionList: items.                  *)

Node(t, l, v, ns, is, ps) ==
    [type |-> t, level |-> l, value |-> v, nodes |-> ns, items |-> is,
     parameters |-> ps, start |-> 0, end |-> 0]

Text(s) == Node("Text", 0, Str(s), <<>>, <<>>, <<>>)
CharacterEntity(c) == Node("CharacterEntity", 0, Str(c), <<>>, <<>>, <<>>)
Bold == Node("Bold", 0, <<>>, <<>>, <<>>, <<>>)
Italic == Node("Italic", 0, <<>>, <<>>, <<>>, <<>>)
Tag(name) == Node("Tag", 0, Str(name), <<>>, <<>>, <<>>)
Link(target, text) == Node("Link", 0, Str(target), text, <<>>, <<>>)
Heading(level, ns) == Node("Heading", level, <<>>, ns, <<>>, <<>>)
Template(name, ps) == Node("Template", 0, <<>>, name, <<>>, ps)
OrderedList(is) == Node("OrderedList", 0, <<>>, <<>>, is, <<>>)
UnorderedList(is) == Node("UnorderedList", 0, <<>>, <<>>, is, <<>>)
DefinitionList(is) == Node("DefinitionList", 0, <<>>, <<>>, is, <<>>)
ListItem(ns) == [nodes |-> ns, start |-> 0, end |-> 0]
Parameter(name, value) == [name |-> name, value |-> value, start |-> 0, end |-> 0]
Unnamed(value) == Parameter(None, value)
Named(name, value) == Parameter(Some(name), value)

H(level, s) == Heading(level, <<Text(s)>>)
T(name, ps) == Template(<<Text(name)>>, ps)

(* The source text of a node, and the offsets parse_wiki_text gives it.    *)
Marker(level) ==
    CASE level = 1 -> "="
      [] level = 2 -> "=="
      [] level = 3 -> "==="
      [] level = 4 -> "===="
      [] level = 5 -> "====="
      [] OTHER -> "======"

ListMarker(t) ==
    CASE t = "OrderedList" -> "#"
      [] t = "UnorderedList" -> "*"
      [] OTHER -> ":"

RECURSIVE RenderNode(_), RenderSeq(_), RenderParameters(_), RenderItems(_, _)

RenderSeq(ns) ==
    IF ns = <<>> THEN <<>> ELSE RenderNode(Head(ns)) \o RenderSeq(Tail(ns))

RenderParameter(p) ==
    IF IsSome(p.name)
    THEN RenderSeq(p.name[1]) \o <<"=">> \o RenderSeq(p.value)
    ELSE RenderSeq(p.value)

RenderParameters(ps) ==
    IF ps = <<>> THEN <<>>
    ELSE <<"|">> \o RenderParameter(Head(ps)) \o RenderParameters(Tail(ps))

RenderItems(t, is) ==
    IF is = <<>> THEN <<>>
    ELSE <<ListMarker(t)>> \o RenderSeq(Head(is).nodes) \o <<"\n">>
         \o RenderItems(t, Tail(is))

RenderNode(n) ==
    CASE n.type = "Text" -> n.value
      [] n.type = "CharacterEntity" -> <<"&" \o n.value[1] \o ";">>
      [] n.type = "Bold" -> <<"'''">>
      [] n.type = "Italic" -> <<"''">>
      [] n.type = "Tag" -> <<"<" \o n.value[1] \o "/>">>
      [] n.type = "Link" ->
            <<"[[">> \o n.value \o <<"|">> \o RenderSeq(n.nodes) \o <<"]]">>
      [] n.type = "Heading" ->
            <<Marker(n.level)>> \o RenderSeq(n.nodes) \o <<Marker(n.level)>>
      [] n.type = "Template" ->
            <<"{{">> \o RenderSeq(n.nodes) \o RenderParameters(n.parameters)
            \o <<"}}">>
      [] OTHER -> RenderItems(n.type, n.items)

RECURSIVE PlaceNode(_, _), PlaceSeq(_, _), PlaceParameters(_, _), PlaceItems(_, _)

PlaceSeq(ns, off) ==
    IF ns = <<>> THEN <<>>
    ELSE <<PlaceNode(Head(ns), off)>>
         \o PlaceSeq(Tail(ns), off + Len(RenderNode(Head(ns))))

PlaceParameter(p, off) ==
    LET nameLen == IF IsSome(p.name) THEN Len(RenderSeq(p.name[1])) + 1 ELSE 0
    IN  [name |-> IF IsSome(p.name) THEN Some(PlaceSeq(p.name[1], off)) ELSE None,
         value |-> PlaceSeq(p.value, off + nameLen),
         start |-> off,
         end |-> off + Len(RenderParameter(p))]

PlaceParameters(ps, off) ==
    IF ps = <<>> THEN <<>>
    ELSE <<PlaceParameter(Head(ps), off + 1)>>
         \o PlaceParameters(Tail(ps), off + 1 + Len(RenderParameter(Head(ps))))

PlaceItems(is, off) ==
    IF is = <<>> THEN <<>>
    ELSE LET len == Len(RenderSeq(Head(is).nodes))
         IN  <<[nodes |-> PlaceSeq(Head(is).nodes, off + 1),
                start |-> off + 1, end |-> off + 1 + len]>>
             \o PlaceItems(Tail(is), off + len + 2)

PlaceNode(n, off) ==
    LET placed == [n EXCEPT !.start = off, !.end = off + Len(RenderNode(n))]
    IN  CASE n.type = "Link" ->
                [placed EXCEPT !.nodes = PlaceSeq(n.nodes, off + Len(n.value) + 2)]
          [] n.type = "Heading" ->
                [placed EXCEPT !.nodes = PlaceSeq(n.nodes, off + 1)]
          [] n.type = "Template" ->
                [placed EXCEPT
                    !.nodes = PlaceSeq(n.nodes, off + 1),
                    !.parameters =
                        PlaceParameters(n.parameters, off + 1 + Len(RenderSeq(n.nodes)))]
          [] n.type \in {"OrderedList", "UnorderedList", "DefinitionList"} ->
                [placed EXCEPT !.items = PlaceItems(n.items, off)]
          [] OTHER -> placed

Slice(text, start, end) == SubSeq(text, start + 1, end)

----------------------------------------------------------------------------
(* lib.rs: Language, Pos, Flowing, Output.                                 *)

from_name(name) ==
    CASE name = Str("Czech") -> Some("Cs")
      [] name = Str("Dutch") -> Some("Nl")
      [] name = Str("English") -> Some("En")
      [] name = Str("Esperanto") -> Some("Eo")
      [] name = Str("French") -> Some("Fr")
      [] name = Str("German") -> Some("De")
      [] name = Str("Italian") -> Some("It")
      [] name = Str("Portuguese") -> Some("Pt")
      [] name = Str("Russian") -> Some("Ru")
      [] name = Str("Spanish") -> Some("Es")
      [] name = Str("Swedish") -> Some("Sv")
      [] OTHER -> None

language_code(language) ==
    CASE language = "Cs" -> Str("cs")
      [] language = "Nl" -> Str("nl")
      [] language = "En" -> Str("en")
      [] language = "Eo" -> Str("eo")
      [] language = "Fr" -> Str("fr")
      [] language = "De" -> Str("de")
      [] language = "It" -> Str("it")
      [] language = "Pt" -> Str("pt")
      [] language = "Ru" -> Str("ru")
      [] language = "Es" -> Str("es")
      [] OTHER -> Str("sv")

FBold == [type |-> "Bold"]
FItalic == [type |-> "Italic"]
FReference == [type |-> "Reference"]
FText(value) == [type |-> "Text", value |-> value]
FLink(target, text) == [type |-> "Link", target |-> target, text |-> text]
FUnknown(value) == [type |-> "Unknown", value |-> value]
FDefinitionDate(value) == [type |-> "DefinitionDate", value |-> value]
FLabels(labels) == [type |-> "Labels", labels |-> labels]
FNonGlossDefinition(value) == [type |-> "NonGlossDefinition", value |-> value]
FTerm(language, term) == [type |-> "Term", language |-> language, term |-> term]
FUnorderedList(items) == [type |-> "UnorderedList", items |-> items]

----------------------------------------------------------------------------
(* util.rs.  A parser that takes `context: &mut Context` and returns a     *)
(* value is an operator from the context to R(context', value).            *)

R(ctx, out) == [ctx |-> ctx, out |-> out]

(* `context.language.unwrap()` on None aborts the parse. *)
Panic(ctx) == [ctx EXCEPT !.panicked = TRUE]

Warning(language, node, message) ==
    [end |-> node.end, language |-> language, message |-> message,
     start |-> node.start]

(* The debug_assert of util.rs 15 (fewer than 10000 warnings) is a check   *)
(* of debug builds only and far beyond the inputs considered here.         *)
add_warning(ctx, node, message) ==
    [ctx EXCEPT !.warnings = Append(@, Warning(ctx.language, node, message))]

create_unknown_at_warning(ctx, unknown_node, warning_node, warning_message) ==
    R(add_warning(ctx, warning_node, warning_message),
      FUnknown(Slice(ctx.wiki_text, warning_node.start, warning_node.end)))

create_unknown_silent(ctx, unknown_node, warning_node, warning_message) ==
    R(ctx, FUnknown(Slice(ctx.wiki_text, unknown_node.start, unknown_node.end)))

create_unknown(ctx, unknown_node, warning_node, warning_message) ==
    R(add_warning(ctx, warning_node, warning_message),
      FUnknown(Slice(ctx.wiki_text, unknown_node.start, unknown_node.end)))

RECURSIVE ConcatValues(_)
ConcatValues(ns) ==
    IF ns = <<>> THEN <<>> ELSE Head(ns).value \o ConcatValues(Tail(ns))

parse_text(ns) ==
    CASE ns = <<>> -> Some(<<>>)
      [] Len(ns) = 1 /\ ns[1].type = "Text" -> Some(ns[1].value)
      [] OTHER ->
            IF \A i \in 1..Len(ns) : ns[i].type \in {"CharacterEntity", "Text"}
            THEN Some(ConcatValues(ns))
            ELSE None

parse_text_not_empty(ns) ==
    LET text == parse_text(ns)
    IN  IF IsSome(text) /\ text[1] # <<>> THEN text ELSE None

parse_parameter_name(parameter) ==
    IF /\ IsSome(parameter.name)
       /\ Len(parameter.name[1]) = 1
       /\ parameter.name[1][1].type = "Text"
    THEN Some(parameter.name[1][1].value)
    ELSE None

parse_link(ctx, node, target, text) ==
    LET parsed == parse_text(text)
    IN  IF parsed = None
        THEN create_unknown(ctx, node, node, "Unrecognized")
        ELSE R(ctx, FLink(target, parsed[1]))

----------------------------------------------------------------------------
(* template.rs *)

RECURSIVE ParseTemplateLoop(_, _, _, _, _, _)
(* template.rs 33: HashMap::insert replaces the value of a present key *)
named_insert_first(named, name, value) == named @@ (name :> value)

named_insert(named, name, value) == (name :> value) @@ named

(* template.rs 13-18: warn! *)
warn_silent(ctx, parameter, message) == R(ctx, None)

warn(ctx, parameter, message) == R(add_warning(ctx, parameter, message), None)

ParseTemplateLoop(ctx, name, parameters, i, named, unnamed) ==
    IF i > Len(parameters)
    THEN R(ctx, Some([name |-> name, named_parameters |-> named,
                      unnamed_parameters |-> unnamed]))
    ELSE
        LET parameter == parameters[i]
            value == parse_text(parameter.value)
            pname == parse_parameter_name(parameter)
            ctx1 == IF IsSome(pname) /\ pname[1] \in DOMAIN named
                    THEN add_warning(ctx, parameter, "Duplicate")
                    ELSE ctx
        IN  IF parameter.name = None
            THEN IF value = None
                 THEN warn(ctx, parameter, "ValueUnrecognized")
                 ELSE ParseTemplateLoop(ctx, name, parameters, i + 1, named,
                                        Append(unnamed, value[1]))
            ELSE IF pname = None
                 THEN warn(ctx, parameter, "Unrecognized")
                 ELSE IF value = None
                      THEN warn(ctx1, parameter, "ValueUnrecognized")
                      ELSE ParseTemplateLoop(ctx1, name, parameters, i + 1,
                                             named_insert(named, pname[1], value[1]),
                                             unnamed)

parse_template(ctx, name, parameters) ==
    ParseTemplateLoop(ctx, name, parameters, 1, <<>>, <<>>)

----------------------------------------------------------------------------
(* definition.rs *)

parse_definition_date_any(ctx, template_node, parameters) ==
    IF Len(parameters) = 1 /\ parameters[1].name = None
    THEN LET value == parse_text(parameters[1].value)
         IN  IF value = None
             THEN create_unknown(ctx, template_node, parameters[1], "ValueUnrecognized")
             ELSE R(ctx, FDefinitionDate(value[1]))
    ELSE create_unknown(ctx, template_node, template_node, "ValueUnrecognized")

parse_definition_date(ctx, template_node, parameters) ==
    IF Len(parameters) = 1 /\ parameters[1].name = None
    THEN LET value == parse_text_not_empty(parameters[1].value)
         IN  IF value = None
             THEN create_unknown(ctx, template_node, parameters[1], "ValueUnrecognized")
             ELSE R(ctx, FDefinitionDate(value[1]))
    ELSE create_unknown(ctx, template_node, template_node, "ValueUnrecognized")

Contains_never(seq, x) == FALSE

Contains(seq, x) == \E i \in 1..Len(seq) : seq[i] = x

RECURSIVE ParseLabelsLoop(_, _, _, _, _)
ParseLabelsLoop(ctx, template_node, parameters, i, labels) ==
    IF i > Len(parameters)
    THEN R(ctx, FLabels(labels))
    ELSE
        LET parameter == parameters[i]
            value == parse_text_not_empty(parameter.value)
        IN  IF IsSome(parameter.name)
            THEN create_unknown(ctx, template_node, parameters[1], "Unrecognized")
            ELSE IF value = None
                 THEN create_unknown(ctx, template_node, parameter, "ValueUnrecognized")
                 ELSE IF Contains(labels, value[1])
                      THEN ParseLabelsLoop(add_warning(ctx, parameter, "Duplicate"),
                                           template_node, parameters, i + 1, labels)
                      ELSE ParseLabelsLoop(ctx, template_node, parameters, i + 1,
                                           Append(labels, value[1]))

(* definition.rs 130 *)
language_conflicts_never(ctx, language) == FALSE

language_conflicts(ctx, language) == language # language_code(ctx.language[1])

parse_labels(ctx, template_node, parameters) ==
    IF parameters = <<>>
    THEN create_unknown(ctx, template_node, template_node, "Empty")
    ELSE
        LET language_parameter == parameters[1]
            language == parse_text(language_parameter.value)
        IN  IF IsSome(language_parameter.name)
            THEN create_unknown(ctx, template_node, language_parameter, "Unrecognized")
            ELSE IF language = None
            THEN create_unknown(ctx, template_node, language_parameter,
                                "ValueUnrecognized")
            ELSE IF ctx.language = None
            THEN R(Panic(ctx), FUnknown(<<>>))
            ELSE IF language_conflicts(ctx, language[1])
            THEN create_unknown(ctx, template_node, language_parameter,
                                "ValueConflicting")
            ELSE IF Len(parameters) > 1
            THEN ParseLabelsLoop(ctx, template_node, parameters, 2, <<>>)
            ELSE create_unknown(ctx, template_node, template_node, "Empty")

(* A result with one more element in its sequence. *)
Push(r, x) == R(x.ctx, Append(r.out, x.out))
SomeOut(x) == R(x.ctx, Some(x.out))

NonGlossElement(ctx, node) ==
    CASE node.type = "Link" -> parse_link(ctx, node, node.value, node.nodes)
      [] node.type = "Text" -> R(ctx, FText(node.value))
      [] OTHER -> create_unknown(ctx, node, node, "Unrecognized")

RECURSIVE ParseNonGlossLoop(_, _, _)
ParseNonGlossLoop(r, ns, i) ==
    IF i > Len(ns) THEN r
    ELSE ParseNonGlossLoop(Push(r, NonGlossElement(r.ctx, ns[i])), ns, i + 1)

NonGlossOut(r) == R(r.ctx, FNonGlossDefinition(r.out))

parse_non_gloss_definition(ctx, template_node, parameters) ==
    IF Len(parameters) = 1 /\ parameters[1].name = None
    THEN IF parameters[1].value = <<>>
         THEN create_unknown(ctx, template_node, parameters[1], "Empty")
         ELSE NonGlossOut(ParseNonGlossLoop(R(ctx, <<>>), parameters[1].value, 1))
    ELSE create_unknown(ctx, template_node, template_node, "ValueUnrecognized")

unwrap_or_default(option, default) == IF IsSome(option) THEN option[1] ELSE default

RECURSIVE parse_definition(_, _), ParseDefinitionLoop(_, _, _), ParseDefinitions(_, _, _)

(* items.iter().map(|item| parse_definition(context, item)).collect() *)
ParseDefinitions(r, items, i) ==
    IF i > Len(items) THEN r
    ELSE ParseDefinitions(Push(r, parse_definition(r.ctx, items[i])), items, i + 1)

(* definition.rs 29-37 *)
nested_list_parsed(ctx, definitions, node) ==
    IF IsSome(definitions)
    THEN SomeOut(ParseDefinitions(R(add_warning(ctx, node, "Duplicate"), <<>>),
                                  node.items, 1))
    ELSE SomeOut(ParseDefinitions(R(ctx, <<>>), node.items, 1))

nested_list_flat(ctx, definitions, node) ==
    IF IsSome(definitions)
    THEN R(add_warning(ctx, node, "Duplicate"), Some(<<>>))
    ELSE R(ctx, Some([i \in 1..Len(node.items) |->
                         [definition |-> <<>>, definitions |-> <<>>,
                          examples |-> 0, quotations |-> 0]]))

nested_list(ctx, definitions, node) ==
    IF IsSome(definitions)
    THEN R(add_warning(ctx, node, "Duplicate"), Some(<<>>))
    ELSE SomeOut(ParseDefinitions(R(ctx, <<>>), node.items, 1))

(* definition.rs 43-54, 62-67 *)
DefinitionTemplate(ctx, node, name) ==
    IF name = Some(Str("defdate"))
    THEN parse_definition_date(ctx, node, node.parameters)
    ELSE IF name \in {Some(Str("label")), Some(Str("lb"))}
    THEN parse_labels(ctx, node, node.parameters)
    ELSE IF name \in {Some(Str("n-g")), Some(Str("non-gloss definition"))}
    THEN parse_non_gloss_definition(ctx, node, node.parameters)
    ELSE create_unknown(ctx, node, node, "Unrecognized")

(* definition.rs 26-27, 40-42, 60-67: push!(...) *)
DefinitionElement_bold(ctx, node) ==
    CASE node.type = "Bold" -> R(ctx, FBold)
      [] node.type = "Italic" -> R(ctx, FItalic)
      [] node.type = "Link" -> parse_link(ctx, node, node.value, node.nodes)
      [] node.type = "Text" -> R(ctx, FText(node.value))
      [] node.type = "Template" -> DefinitionTemplate(ctx, node, parse_text(node.nodes))
      [] OTHER -> create_unknown(ctx, node, node, "Unrecognized")

DefinitionElement(ctx, node) ==
    CASE node.type = "Italic" -> R(ctx, FItalic)
      [] node.type = "Link" -> parse_link(ctx, node, node.value, node.nodes)
      [] node.type = "Text" -> R(ctx, FText(node.value))
      [] node.type = "Template" -> DefinitionTemplate(ctx, node, parse_text(node.nodes))
      [] OTHER -> create_unknown(ctx, node, node, "Unrecognized")

PushElement(acc, x) == R(x.ctx, [acc EXCEPT !.definition = Append(@, x.out)])
SetDefinitions(acc, x) == R(x.ctx, [acc EXCEPT !.definitions = x.out])

(* One iteration of definition.rs 19-68. *)
DefinitionNode_one(ctx, node, acc) ==
    CASE node.type = "DefinitionList" ->
            R(add_warning(ctx, node, "Supplementary"),
              [acc EXCEPT !.examples = @ + 1])
      [] node.type = "UnorderedList" ->
            R(add_warning(ctx, node, "Supplementary"),
              [acc EXCEPT !.quotations = @ + 1])
      [] node.type = "OrderedList" ->
            SetDefinitions(acc, nested_list(ctx, acc.definitions, node))
      [] OTHER -> PushElement(acc, DefinitionElement(ctx, node))

DefinitionNode(ctx, node, acc) ==
    CASE node.type = "DefinitionList" ->
            R(add_warning(ctx, node, "Supplementary"),
              [acc EXCEPT !.examples = @ + Len(node.items)])
      [] node.type = "UnorderedList" ->
            R(add_warning(ctx, node, "Supplementary"),
              [acc EXCEPT !.quotations = @ + Len(node.items)])
      [] node.type = "OrderedList" ->
            SetDefinitions(acc, nested_list(ctx, acc.definitions, node))
      [] OTHER -> PushElement(acc, DefinitionElement(ctx, node))

ParseDefinitionLoop(r, ns, i) ==
    IF i > Len(ns) THEN r
    ELSE ParseDefinitionLoop(DefinitionNode(r.ctx, ns[i], r.out), ns, i + 1)

(* definition.rs 69-77 *)
Definition(r, list_item) ==
    R(IF r.out.definition = <<>>
      THEN add_warning(r.ctx, list_item, "Empty")
      ELSE r.ctx,
      [definition |-> r.out.definition,
       definitions |-> unwrap_or_default(r.out.definitions, <<>>),
       examples |-> r.out.examples,
       quotations |-> r.out.quotations])

parse_definition(ctx, list_item) ==
    Definition(ParseDefinitionLoop(
                   R(ctx, [definition |-> <<>>, definitions |-> None,
                           examples |-> 0, quotations |-> 0]),
                   list_item.nodes, 1),
               list_item)

----------------------------------------------------------------------------
(* usage_notes.rs: the parts of parse_usage_notes that do not move the     *)
(* section cursor.                                                         *)

parse_template_term(ctx, template_node, parameters) ==
    IF /\ Len(parameters) = 2
       /\ parameters[1].name = None
       /\ parameters[2].name = None
    THEN LET language == parse_text_not_empty(parameters[1].value)
             term == parse_text_not_empty(parameters[2].value)
         IN  IF language = None
             THEN create_unknown(ctx, template_node, parameters[1], "ValueUnrecognized")
             ELSE IF term = None
             THEN create_unknown(ctx, template_node, parameters[2], "ValueUnrecognized")
             ELSE R(ctx, FTerm(language[1], term[1]))
    ELSE create_unknown(ctx, template_node, template_node, "ValueUnrecognized")

IsTermTemplate(node) ==
    /\ node.type = "Template"
    /\ parse_text(node.nodes) \in {Some(Str("l")), Some(Str("m"))}

(* One node of the section (lines 26-47, 113-121) or of a list item        *)
(* (lines 61-101), lists excepted.                                         *)
UsageNotesElement(ctx, node) ==
    CASE node.type = "Bold" -> R(ctx, FBold)
      [] node.type = "Italic" -> R(ctx, FItalic)
      [] node.type = "Link" -> parse_link(ctx, node, node.value, node.nodes)
      [] node.type = "Tag" /\ node.value = Str("ref") ->
            R(add_warning(ctx, node, "Supplementary"), FReference)
      [] IsTermTemplate(node) -> parse_template_term(ctx, node, node.parameters)
      [] node.type = "Text" -> R(ctx, FText(node.value))
      [] OTHER -> create_unknown(ctx, node, node, "Unrecognized")

RECURSIVE UsageNotesItemNodes(_, _, _)
UsageNotesItemNodes(r, ns, i) ==
    IF i > Len(ns) THEN r
    ELSE UsageNotesItemNodes(Push(r, UsageNotesElement(r.ctx, ns[i])), ns, i + 1)

(* usage_notes.rs 52-106: one item of the filter_map *)
UsageNotesItem_kept(r, item) ==
    IF item.nodes = <<>>
    THEN R(add_warning(r.ctx, item, "Empty"), Append(r.out, <<>>))
    ELSE Push(r, UsageNotesItemNodes(R(r.ctx, <<>>), item.nodes, 1))

UsageNotesItem(r, item) ==
    IF item.nodes = <<>>
    THEN R(add_warning(r.ctx, item, "Empty"), r.out)
    ELSE Push(r, UsageNotesItemNodes(R(r.ctx, <<>>), item.nodes, 1))

RECURSIVE UsageNotesItems(_, _, _)
UsageNotesItems(r, items, i) ==
    IF i > Len(items) THEN r
    ELSE UsageNotesItems(UsageNotesItem(r, items[i]), items, i + 1)

----------------------------------------------------------------------------
(* pronunciation.rs: the flags set by the templates of one unordered list. *)

DefaultPronunciation ==
    [audio |-> FALSE, homophones |-> FALSE, hyphenation |-> FALSE,
     ipa |-> FALSE, rhymes |-> FALSE]

ItemsHaveTemplate(items, names) ==
    \E i \in 1..Len(items) : \E j \in 1..Len(items[i].nodes) :
        /\ items[i].nodes[j].type = "Template"
        /\ parse_text(items[i].nodes[j].nodes) \in {Some(Str(n)) : n \in names}

PronunciationFlags_last(pronunciation, items) ==
    [audio |-> ItemsHaveTemplate(items, {"audio"}),
     homophones |-> ItemsHaveTemplate(items, {"homophones"}),
     hyphenation |-> ItemsHaveTemplate(items, {"hyphenation"}),
     ipa |-> ItemsHaveTemplate(items, {"IPA", "cs-IPA"}),
     rhymes |-> ItemsHaveTemplate(items, {"rhymes"})]

PronunciationFlags_toggle(pronunciation, items) ==
    [audio |-> pronunciation.audio # ItemsHaveTemplate(items, {"audio"}),
     homophones |-> pronunciation.homophones # ItemsHaveTemplate(items, {"homophones"}),
     hyphenation |-> pronunciation.hyphenation # ItemsHaveTemplate(items, {"hyphenation"}),
     ipa |-> pronunciation.ipa # ItemsHaveTemplate(items, {"IPA", "cs-IPA"}),
     rhymes |-> pronunciation.rhymes # ItemsHaveTemplate(items, {"rhymes"})]

PronunciationFlags(pronunciation, items) ==
    [audio |-> pronunciation.audio \/ ItemsHaveTemplate(items, {"audio"}),
     homophones |-> pronunciation.homophones \/ ItemsHaveTemplate(items, {"homophones"}),
     hyphenation |-> pronunciation.hyphenation \/ ItemsHaveTemplate(items, {"hyphenation"}),
     ipa |-> pronunciation.ipa \/ ItemsHaveTemplate(items, {"IPA", "cs-IPA"}),
     rhymes |-> pronunciation.rhymes \/ ItemsHaveTemplate(items, {"rhymes"})]

----------------------------------------------------------------------------
(* pos.rs, language.rs: name tables.                                       *)

check_head_template_name(language, template_name) ==
    \/ template_name = Str("head")
    \/ /\ language = "Cs"
       /\ template_name \in {Str("cs-adj"), Str("cs-adv"), Str("cs-noun"),
                             Str("cs-proper noun")}
    \/ /\ language = "De"
       /\ template_name \in {Str("de-adj"), Str("de-adv"), Str("de-noun"),
                             Str("de-proper noun"), Str("de-verb-strong"),
                             Str("de-verb-weak")}
    \/ /\ language = "En"
       /\ template_name \in {Str("en-adj"), Str("en-noun"), Str("en-proper noun"),
                             Str("en-verb")}
    \/ /\ language = "Es"
       /\ template_name \in {Str("es-adj"), Str("es-adv"), Str("es-noun")}
    \/ /\ language = "Sv"
       /\ template_name \in {Str("sv-adj"), Str("sv-adv"), Str("sv-noun"),
                             Str("sv-proper noun"), Str("sv-verb-reg")}

PosNames ==
    {"Adjective", "Adverb", "Article", "Conjunction", "Interjection", "Noun",
     "Numeral", "Particle", "Phrase", "Preposition", "Pronoun", "Proper noun",
     "Verb"}

(* module! { "Proper noun" ProperNoun, ... }: heading text to Pos variant. *)
pos_from_name(text) ==
    IF text = Str("Proper noun") THEN Some("ProperNoun")
    ELSE IF \E n \in PosNames : text = Str(n) THEN Some(text[1])
    ELSE None

StartsWith(s, prefix) ==
    /\ Len(s) >= Len(prefix)
    /\ SubSeq(s, 1, Len(prefix)) = prefix

----------------------------------------------------------------------------
(* The call stack.  Every section parser scans a suffix of the top-level   *)
(* node sequence: a frame holds the offset `base` of its slice in `nodes`, *)
(* its cursor `node_index`, the index `heading` of its heading node and    *)
(* its locals.  A `&mut` result parameter is a local of the caller's frame.*)

Top == stack[Len(stack)]
Caller == stack[Len(stack) - 1]
Running(fn) ==
    /\ output = None
    /\ stack # <<>>
    /\ Top.fn = fn
    /\ ~context.panicked

Position(f) == f.base + f.node_index
HasNode(f) == Position(f) < Len(nodes)
NodeAt(f) == nodes[Position(f) + 1]
HeadingNode(f) == nodes[f.heading]
IsHeading(node) == node.type = "Heading"

(* node_index += 1 *)
Advance(f) == [f EXCEPT !.node_index = @ + 1]

(* parse_section!: node_index += 1 before the call on &nodes[node_index..] *)
parse_section_stay(f) == f

parse_section(f) == [f EXCEPT !.node_index = @ + 1]

(* node_index += callee(...) *)
Resume_skip(f, count) == [f EXCEPT !.node_index = @ + count + 1]

Resume(f, count) == [f EXCEPT !.node_index = @ + count]

WithTop(f) == [stack EXCEPT ![Len(stack)] = f]
Call(f, callee) == Append(WithTop(f), callee)
ReturnTo(f) == Append(SubSeq(stack, 1, Len(stack) - 2), f)
Returned(f) == Some([fn |-> f.fn, base |-> f.base, count |-> f.node_index])

Step(ctx, stk, consumed, ret) ==
    /\ context' = ctx
    /\ stack' = stk
    /\ visits' = IF consumed
                 THEN [visits EXCEPT ![Position(Top) + 1] = @ + 1]
                 ELSE visits
    /\ returned' = ret
    /\ UNCHANGED <<nodes, output, calls, previous>>

ParseFrame == [fn |-> "parse", base |-> 0, node_index |-> 0]

LanguageFrame(base, language) ==
    [fn |-> "parse_language", base |-> base, node_index |-> 0, heading |-> base,
     language |-> language, alternative_forms |-> FALSE, anagrams |-> FALSE,
     etymology |-> FALSE, etymology_entries |-> <<>>, further_reading |-> FALSE,
     pos_entries |-> <<>>, pronunciation |-> None]

EtymologyFrame(base) ==
    [fn |-> "parse_etymology", base |-> base, node_index |-> 0, heading |-> base,
     phase |-> 1, alternative_forms |-> FALSE, etymology |-> FALSE,
     pos_entries |-> <<>>, pronunciation |-> None]

PosFrame(base, heading_level, pos) ==
    [fn |-> "parse_pos", base |-> base, node_index |-> 0, heading |-> base,
     heading_level |-> heading_level, pos |-> pos, phase |-> 1,
     definitions |-> None, head |-> None, antonyms |-> FALSE,
     derived_terms |-> FALSE, hypernyms |-> FALSE, hyponyms |-> FALSE,
     inflection |-> <<>>, related_terms |-> FALSE, synonyms |-> FALSE,
     translations |-> FALSE, usage_notes |-> None]

SupplementaryFrame(base) ==
    [fn |-> "parse_supplementary", base |-> base, node_index |-> 0, heading |-> base]

PronunciationFrame(base, pronunciation) ==
    [fn |-> "parse_pronunciation", base |-> base, node_index |-> 0, heading |-> base,
     has_list |-> FALSE, pronunciation |-> pronunciation]

InflectionFrame(base, template_name) ==
    [fn |-> "parse_inflection", base |-> base, node_index |-> 0, heading |-> base,
     inflection |-> None, template_name |-> template_name]

UsageNotesFrame(base) ==
    [fn |-> "parse_usage_notes", base |-> base, node_index |-> 0, heading |-> base,
     usage_notes |-> <<>>]

(* Calls: the callee's code before its loop runs with the call. *)

(* supplementary.rs 11-14 *)
supplementary_enter_silent(ctx, heading_node, flag) == ctx

supplementary_enter(ctx, heading_node, flag) ==
    IF flag THEN add_warning(ctx, heading_node, "Duplicate") ELSE ctx

CallSupplementary(f, field, node) ==
    Step(supplementary_enter(context, node, f[field]),
         Call([parse_section(f) EXCEPT ![field] = TRUE],
              SupplementaryFrame(Position(parse_section(f)))),
         TRUE, returned)

(* pronunciation.rs 20-25 *)
pronunciation_enter(ctx, heading_node, slot) ==
    IF IsSome(slot) THEN add_warning(ctx, heading_node, "Duplicate") ELSE ctx

CallPronunciation(f, node) ==
    Step(pronunciation_enter(context, node, f.pronunciation),
         Call([parse_section(f) EXCEPT !.pronunciation = None],
              PronunciationFrame(Position(parse_section(f)),
                  unwrap_or_default(f.pronunciation, DefaultPronunciation))),
         TRUE, returned)

(* pos.rs 13-18 *)
RECURSIVE pos_seen(_, _, _, _), pos_seen_every(_, _, _, _)
pos_seen_every(ctx, heading_node, entries, pos) ==
    IF entries = <<>> THEN ctx
    ELSE pos_seen_every(IF Head(entries).pos = pos
                        THEN add_warning(ctx, heading_node, "Duplicate")
                        ELSE ctx,
                        heading_node, Tail(entries), pos)

pos_seen(ctx, heading_node, entries, pos) ==
    IF entries = <<>> THEN ctx
    ELSE IF Head(entries).pos = pos
    THEN add_warning(ctx, heading_node, "Duplicate")
    ELSE pos_seen(ctx, heading_node, Tail(entries), pos)

CallPos(f, node, heading_level, pos) ==
    Step(pos_seen(context, node, f.pos_entries, pos),
         Call(Advance(f), PosFrame(Position(Advance(f)), heading_level, pos)),
         TRUE, returned)

(* language.rs 14-19 *)
RECURSIVE language_seen_all(_, _, _, _)
language_seen_all(ctx, heading_node, entries, language) ==
    IF entries = <<>> THEN ctx
    ELSE IF Head(entries).language = language
    THEN language_seen_all(add_warning(ctx, heading_node, "Duplicate"), heading_node,
                           Tail(entries), language)
    ELSE language_seen_all(ctx, heading_node, Tail(entries), language)

RECURSIVE language_seen(_, _, _, _)
language_seen(ctx, heading_node, entries, language) ==
    IF entries = <<>> THEN ctx
    ELSE IF Head(entries).language = language
    THEN add_warning(ctx, heading_node, "Duplicate")
    ELSE language_seen(ctx, heading_node, Tail(entries), language)

----------------------------------------------------------------------------
(* lib.rs: parse *)

NewContext(wiki_text) ==
    [language |-> None, warnings |-> <<>>, wiki_text |-> wiki_text,
     panicked |-> FALSE]

(* lib.rs 459 and 467 *)
set_language_skipped(ctx, language) == ctx

set_language(ctx, language) == [ctx EXCEPT !.language = Some(language)]

reset_language_kept(ctx) == ctx

reset_language(ctx) == [ctx EXCEPT !.language = None]

(* lib.rs 447-451, 456-457: Some(language) for a language heading *)
HeadingLanguage(node) ==
    IF IsHeading(node) /\ node.level < 3 /\ IsSome(parse_text(node.nodes))
    THEN from_name(parse_text(node.nodes)[1])
    ELSE None

(* lib.rs 452-455 *)
IsTopBreak_never(node) == FALSE

IsTopBreak_unmatched(node) ==
    IsHeading(node) /\ node.level < 3 /\ HeadingLanguage(node) = None

IsTopBreak(node) == IsHeading(node) /\ node.level < 2

ParseStep ==
    /\ Running("parse")
    /\ HasNode(Top)
    /\ ~IsTopBreak(NodeAt(Top))
    /\ LET f == Top
           node == NodeAt(f)
           language == HeadingLanguage(node)
       IN  IF IsSome(language)
           THEN Step(language_seen(set_language(context, language[1]), node,
                                   language_entries, language[1]),
                     Call(Advance(f), LanguageFrame(Position(Advance(f)), language[1])),
                     TRUE, returned)
           ELSE IF node.type = "Template" /\ parse_text(node.nodes) = Some(Str("also"))
           THEN Step(add_warning(context, node, "Supplementary"),
                     WithTop(Advance(f)), TRUE, returned)
           ELSE Step(add_warning(context, node, "Unrecognized"),
                     WithTop(Advance(f)), TRUE, returned)
    /\ UNCHANGED language_entries

ParseReturn ==
    /\ Running("parse")
    /\ HasNode(Top) => IsTopBreak(NodeAt(Top))
    /\ LET ctx == IF HasNode(Top)
                  THEN add_warning(context, NodeAt(Top), "Unrecognized")
                  ELSE context
       IN  /\ context' = ctx
           /\ output' = Some([language_entries |-> language_entries,
                              warnings |-> ctx.warnings])
    /\ stack' = <<>>
    /\ UNCHANGED <<nodes, language_entries, visits, returned, calls, previous>>

----------------------------------------------------------------------------
(* supplementary.rs *)

SupplementaryStep ==
    /\ Running("parse_supplementary")
    /\ HasNode(Top)
    /\ ~IsHeading(NodeAt(Top))
    /\ Step(add_warning(context, NodeAt(Top), "Supplementary"),
            WithTop(Advance(Top)), TRUE, returned)
    /\ UNCHANGED language_entries

SupplementaryReturn ==
    /\ Running("parse_supplementary")
    /\ HasNode(Top) => IsHeading(NodeAt(Top))
    /\ Step(context, ReturnTo(Resume(Caller, Top.node_index)), FALSE, Returned(Top))
    /\ UNCHANGED language_entries

----------------------------------------------------------------------------
(* language.rs: parse_language *)

LanguageSupplementary(text) ==
    CASE text = Some(Str("Alternative forms")) -> Some("alternative_forms")
      [] text = Some(Str("Anagrams")) -> Some("anagrams")
      [] text = Some(Str("Etymology")) -> Some("etymology")
      [] text = Some(Str("Further reading")) -> Some("further_reading")
      [] OTHER -> None

IsNumberedEtymology(text) ==
    text \in {Some(Str("Etymology 1")), Some(Str("Etymology 2")),
              Some(Str("Etymology 3")), Some(Str("Etymology 4"))}

HeadingPos(text) == IF IsSome(text) THEN pos_from_name(text[1]) ELSE None

IsLanguageTemplate_never(node) == FALSE

IsLanguageTemplate(node) ==
    /\ node.type = "Template"
    /\ parse_text(node.nodes) \in {Some(Str("number box")), Some(Str("was fwotd")),
                                   Some(Str("was wotd")), Some(Str("wikipedia"))}

(* language.rs 42-44 *)
IsLanguageBreak(node) == IsHeading(node) /\ node.level < 3

LanguageStep ==
    /\ Running("parse_language")
    /\ HasNode(Top)
    /\ ~IsLanguageBreak(NodeAt(Top))
    /\ LET f == Top
           node == NodeAt(f)
           text == IF IsHeading(node) /\ node.level < 4
                   THEN parse_text(node.nodes) ELSE None
       IN  IF IsSome(LanguageSupplementary(text))
           THEN CallSupplementary(f, LanguageSupplementary(text)[1], node)
           ELSE IF IsNumberedEtymology(text)
           THEN Step(context,
                     Call(parse_section(f), EtymologyFrame(Position(parse_section(f)))),
                     TRUE, returned)
           ELSE IF text = Some(Str("Pronunciation"))
           THEN CallPronunciation(f, node)
           ELSE IF IsSome(HeadingPos(text))
           THEN CallPos(f, node, 4, HeadingPos(text)[1])
           ELSE IF IsLanguageTemplate(node)
           THEN Step(add_warning(context, node, "Supplementary"),
                     WithTop(Advance(f)), TRUE, returned)
           ELSE Step(add_warning(context, node, "Unrecognized"),
                     WithTop(Advance(f)), TRUE, returned)
    /\ UNCHANGED language_entries

EtymologyEntry(f) ==
    LET pronunciation == unwrap_or_default(f.pronunciation, DefaultPronunciation)
    IN  [alternative_forms |-> f.alternative_forms,
         audio |-> pronunciation.audio,
         etymology |-> f.etymology,
         homophones |-> pronunciation.homophones,
         hyphenation |-> pronunciation.hyphenation,
         ipa |-> pronunciation.ipa,
         pos_entries |-> f.pos_entries,
         rhymes |-> pronunciation.rhymes]

LanguageEntry(f) ==
    [anagrams |-> f.anagrams,
     etymology_entries |-> f.etymology_entries,
     etymology_entry |-> EtymologyEntry(f),
     further_reading |-> f.further_reading,
     language |-> f.language]

(* language.rs 98-100 *)
language_section_empty(f) == f.pos_entries = <<>> /\ f.etymology_entries = <<>>

LanguageReturn ==
    /\ Running("parse_language")
    /\ HasNode(Top) => IsLanguageBreak(NodeAt(Top))
    /\ LET f == Top
           ctx == IF language_section_empty(f)
                  THEN add_warning(context, HeadingNode(f), "SectionEmpty")
                  ELSE context
       IN  /\ Step(reset_language(ctx), ReturnTo(Resume(Caller, f.node_index)),
                   FALSE, Returned(f))
           /\ language_entries' = Append(language_entries, LanguageEntry(f))

----------------------------------------------------------------------------
(* language.rs: parse_etymology *)

EtymologyTextStep ==
    /\ Running("parse_etymology")
    /\ Top.phase = 1
    /\ HasNode(Top)
    /\ ~IsHeading(NodeAt(Top))
    /\ Step(add_warning(context, NodeAt(Top), "Supplementary"),
            WithTop([Advance(Top) EXCEPT !.etymology = TRUE]), TRUE, returned)
    /\ UNCHANGED language_entries

EtymologyTextEnd ==
    /\ Running("parse_etymology")
    /\ Top.phase = 1
    /\ HasNode(Top) => IsHeading(NodeAt(Top))
    /\ Step(context, WithTop([Top EXCEPT !.phase = 2]), FALSE, returned)
    /\ UNCHANGED language_entries

(* language.rs 154-156 *)
IsEtymologyBreak_language(node) == IsHeading(node) /\ node.level < 3

IsEtymologyBreak(node) == IsHeading(node) /\ node.level < 4

EtymologyStep ==
    /\ Running("parse_etymology")
    /\ Top.phase = 2
    /\ HasNode(Top)
    /\ ~IsEtymologyBreak(NodeAt(Top))
    /\ LET f == Top
           node == NodeAt(f)
           text == IF IsHeading(node) /\ node.level < 5
                   THEN parse_text(node.nodes) ELSE None
       IN  IF text = Some(Str("Alternative forms"))
           THEN CallSupplementary(f, "alternative_forms", node)
           ELSE IF text = Some(Str("Pronunciation"))
           THEN CallPronunciation(f, node)
           ELSE IF IsSome(HeadingPos(text))
           THEN CallPos(f, node, 5, HeadingPos(text)[1])
           ELSE Step(add_warning(context, node, "Unrecognized"),
                     WithTop(Advance(f)), TRUE, returned)
    /\ UNCHANGED language_entries

(* language.rs 186-188 *)
etymology_section_empty_bare(f) ==
    /\ f.pos_entries = <<>>
    /\ ~f.etymology
    /\ ~f.alternative_forms
    /\ f.pronunciation = None

etymology_section_empty(f) == f.pos_entries = <<>>

EtymologyReturn ==
    /\ Running("parse_etymology")
    /\ Top.phase = 2
    /\ HasNode(Top) => IsEtymologyBreak(NodeAt(Top))
    /\ LET f == Top
           ctx == IF etymology_section_empty(f)
                  THEN add_warning(context, HeadingNode(f), "SectionEmpty")
                  ELSE context
       IN  Step(ctx,
                ReturnTo([Resume(Caller, f.node_index) EXCEPT
                            !.etymology_entries = Append(@, EtymologyEntry(f))]),
                FALSE, Returned(f))
    /\ UNCHANGED language_entries

----------------------------------------------------------------------------
(* pos.rs: parse_pos *)

IsHeadTemplate(ctx, node) ==
    /\ node.type = "Template"
    /\ IsSome(parse_text(node.nodes))
    /\ IsSome(ctx.language)
    /\ check_head_template_name(ctx.language[1], parse_text(node.nodes)[1])

(* pos.rs 28: context.language.unwrap() *)
HeadUnwrapFails(ctx, node) ==
    /\ node.type = "Template"
    /\ IsSome(parse_text(node.nodes))
    /\ ctx.language = None

(* pos.rs 30-35 *)
head_template_kept(ctx, head, node) ==
    IF IsSome(head)
    THEN R(add_warning(ctx, node, "Duplicate"), head)
    ELSE SomeOut(parse_template(ctx, parse_text(node.nodes)[1], node.parameters))

head_template_refill(ctx, head, node) ==
    IF IsSome(head) /\ IsSome(head[1])
    THEN R(add_warning(ctx, node, "Duplicate"), Some(None))
    ELSE SomeOut(parse_template(ctx, parse_text(node.nodes)[1], node.parameters))

head_template(ctx, head, node) ==
    IF IsSome(head)
    THEN R(add_warning(ctx, node, "Duplicate"), Some(None))
    ELSE SomeOut(parse_template(ctx, parse_text(node.nodes)[1], node.parameters))

definition_list_first(ctx, definitions, node) ==
    IF IsSome(definitions)
    THEN R(add_warning(ctx, node, "Duplicate"), definitions)
    ELSE SomeOut(ParseDefinitions(R(ctx, <<>>), node.items, 1))

(* pos.rs 41-51 *)
definition_list(ctx, definitions, node) ==
    IF IsSome(definitions)
    THEN R(add_warning(ctx, node, "Duplicate"), Some(<<>>))
    ELSE SomeOut(ParseDefinitions(R(ctx, <<>>), node.items, 1))

PosHeadStep ==
    /\ Running("parse_pos")
    /\ Top.phase = 1
    /\ HasNode(Top)
    /\ ~IsHeading(NodeAt(Top))
    /\ LET f == Top
           node == NodeAt(f)
           head == head_template(context, f.head, node)
           definitions == definition_list(context, f.definitions, node)
       IN  IF HeadUnwrapFails(context, node)
           THEN Step(Panic(context), stack, FALSE, returned)
           ELSE IF IsHeadTemplate(context, node)
           THEN Step(head.ctx, WithTop([Advance(f) EXCEPT !.head = head.out]),
                     TRUE, returned)
           ELSE IF node.type = "OrderedList"
           THEN Step(definitions.ctx,
                     WithTop([Advance(f) EXCEPT !.definitions = definitions.out]),
                     TRUE, returned)
           ELSE Step(add_warning(context, node, "Unrecognized"),
                     WithTop(Advance(f)), TRUE, returned)
    /\ UNCHANGED language_entries

(* pos.rs 59-61 *)
pos_section_empty_inverted(f) == f.definitions # None

pos_section_empty_headless(f) == f.definitions = None /\ f.head = None

pos_section_empty(f) == f.definitions = None

PosHeadEnd ==
    /\ Running("parse_pos")
    /\ Top.phase = 1
    /\ HasNode(Top) => IsHeading(NodeAt(Top))
    /\ LET ctx == IF pos_section_empty(Top)
                  THEN add_warning(context, HeadingNode(Top), "SectionEmpty")
                  ELSE context
       IN  Step(ctx, WithTop([Top EXCEPT !.phase = 2]), FALSE, returned)
    /\ UNCHANGED language_entries

PosSupplementary(text) ==
    CASE text = Some(Str("Antonyms")) -> Some("antonyms")
      [] text = Some(Str("Derived terms")) -> Some("derived_terms")
      [] text = Some(Str("Hypernyms")) -> Some("hypernyms")
      [] text = Some(Str("Hyponyms")) -> Some("hyponyms")
      [] text = Some(Str("Related terms")) -> Some("related_terms")
      [] text = Some(Str("Synonyms")) -> Some("synonyms")
      [] text = Some(Str("Translations")) -> Some("translations")
      [] OTHER -> None

PosInflection(text) ==
    CASE text = Some(Str("Conjugation")) -> Some(Str("-conj-"))
      [] text = Some(Str("Declension")) -> Some(Str("-decl-"))
      [] OTHER -> None

(* pos.rs 83-86 *)
IsPosBreak_subsection(f, node) == IsHeading(node) /\ node.level <= f.heading_level

IsPosBreak(f, node) == IsHeading(node) /\ node.level < f.heading_level

usage_notes_again_reset(ctx, heading_node) ==
    R(add_warning(ctx, heading_node, "Duplicate"), None)

(* usage_notes.rs 11-15: the slot is already set *)
usage_notes_again(ctx, heading_node) ==
    R(add_warning(ctx, heading_node, "Duplicate"), Some(None))

PosStep ==
    /\ Running("parse_pos")
    /\ Top.phase = 2
    /\ HasNode(Top)
    /\ ~IsPosBreak(Top, NodeAt(Top))
    /\ LET f == Top
           node == NodeAt(f)
           text == IF IsHeading(node) /\ node.level <= f.heading_level
                   THEN parse_text(node.nodes) ELSE None
           again == usage_notes_again(context, node)
       IN  IF IsSome(PosSupplementary(text))
           THEN CallSupplementary(f, PosSupplementary(text)[1], node)
           ELSE IF IsSome(PosInflection(text))
           THEN Step(context,
                     Call(parse_section(f),
                          InflectionFrame(Position(parse_section(f)),
                                          PosInflection(text)[1])),
                     TRUE, returned)
           ELSE IF text = Some(Str("Usage notes")) /\ IsSome(f.usage_notes)
           THEN Step(again.ctx,
                     WithTop([parse_section(f) EXCEPT !.usage_notes = again.out]),
                     TRUE,
                     Returned(UsageNotesFrame(Position(parse_section(f)))))
           ELSE IF text = Some(Str("Usage notes"))
           THEN Step(context,
                     Call(parse_section(f), UsageNotesFrame(Position(parse_section(f)))),
                     TRUE, returned)
           ELSE Step(add_warning(context, node, "Unrecognized"),
                     WithTop(Advance(f)), TRUE, returned)
    /\ UNCHANGED language_entries

(* pos.rs 127-140 *)
PosEntry(f) ==
    [antonyms |-> f.antonyms,
     definitions |-> unwrap_or_default(f.definitions, <<>>),
     derived_terms |-> f.derived_terms,
     head |-> unwrap_or_default(f.head, None),
     hypernyms |-> f.hypernyms,
     hyponyms |-> f.hyponyms,
     inflection |-> f.inflection,
     pos |-> f.pos,
     related_terms |-> f.related_terms,
     synonyms |-> f.synonyms,
     translations |-> f.translations,
     usage_notes |-> unwrap_or_default(f.usage_notes, None)]

PosReturn ==
    /\ Running("parse_pos")
    /\ Top.phase = 2
    /\ HasNode(Top) => IsPosBreak(Top, NodeAt(Top))
    /\ Step(context,
            ReturnTo([Resume(Caller, Top.node_index) EXCEPT
                        !.pos_entries = Append(@, PosEntry(Top))]),
            FALSE, Returned(Top))
    /\ UNCHANGED language_entries

----------------------------------------------------------------------------
(* pronunciation.rs: parse_pronunciation *)

(* pronunciation.rs 31-34 *)
list_again(ctx, node, has_list) ==
    IF has_list THEN add_warning(ctx, node, "Duplicate") ELSE ctx

PronunciationStep ==
    /\ Running("parse_pronunciation")
    /\ HasNode(Top)
    /\ ~IsHeading(NodeAt(Top))
    /\ LET f == Top
           node == NodeAt(f)
       IN  IF node.type = "UnorderedList"
           THEN Step(list_again(context, node, f.has_list),
                     WithTop([Advance(f) EXCEPT
                                !.has_list = TRUE,
                                !.pronunciation = PronunciationFlags(@, node.items)]),
                     TRUE, returned)
           ELSE Step(add_warning(context, node, "Unrecognized"),
                     WithTop(Advance(f)), TRUE, returned)
    /\ UNCHANGED language_entries

PronunciationReturn ==
    /\ Running("parse_pronunciation")
    /\ HasNode(Top) => IsHeading(NodeAt(Top))
    /\ LET f == Top
           ctx == IF ~f.has_list
                  THEN add_warning(context, HeadingNode(f), "SectionEmpty")
                  ELSE context
       IN  Step(ctx,
                ReturnTo([Resume(Caller, f.node_index) EXCEPT
                            !.pronunciation = Some(f.pronunciation)]),
                FALSE, Returned(f))
    /\ UNCHANGED language_entries

----------------------------------------------------------------------------
(* inflection.rs: parse_inflection *)

IsInflectionTemplate(ctx, node, template_name) ==
    /\ node.type = "Template"
    /\ IsSome(parse_text(node.nodes))
    /\ IsSome(ctx.language)
    /\ LET name == parse_text(node.nodes)[1]
           code == language_code(ctx.language[1])
       IN  /\ StartsWith(name, code)
           /\ StartsWith(SubSeq(name, Len(code) + 1, Len(name)), template_name)

(* inflection.rs 25-30 *)
inflection_template_first(ctx, inflection, node) ==
    IF IsSome(inflection)
    THEN R(add_warning(ctx, node, "Duplicate"), inflection)
    ELSE SomeOut(parse_template(ctx, parse_text(node.nodes)[1], node.parameters))

inflection_template(ctx, inflection, node) ==
    IF IsSome(inflection)
    THEN R(add_warning(ctx, node, "Duplicate"), Some(None))
    ELSE SomeOut(parse_template(ctx, parse_text(node.nodes)[1], node.parameters))

InflectionStep ==
    /\ Running("parse_inflection")
    /\ HasNode(Top)
    /\ ~IsHeading(NodeAt(Top))
    /\ LET f == Top
           node == NodeAt(f)
           inflection == inflection_template(context, f.inflection, node)
       IN  IF HeadUnwrapFails(context, node)
           THEN Step(Panic(context), stack, FALSE, returned)
           ELSE IF IsInflectionTemplate(context, node, f.template_name)
           THEN Step(inflection.ctx,
                     WithTop([Advance(f) EXCEPT !.inflection = inflection.out]),
                     TRUE, returned)
           ELSE Step(add_warning(context, node, "Unrecognized"),
                     WithTop(Advance(f)), TRUE, returned)
    /\ UNCHANGED language_entries

InflectionReturn ==
    /\ Running("parse_inflection")
    /\ HasNode(Top) => IsHeading(NodeAt(Top))
    /\ LET f == Top
           ctx == IF f.inflection = None
                  THEN add_warning(context, HeadingNode(f), "SectionEmpty")
                  ELSE context
           caller == Resume(Caller, f.node_index)
       IN  Step(ctx,
                ReturnTo(IF IsSome(f.inflection) /\ IsSome(f.inflection[1])
                         THEN [caller EXCEPT !.inflection = Append(@, f.inflection[1][1])]
                         ELSE caller),
                FALSE, Returned(f))
    /\ UNCHANGED language_entries

----------------------------------------------------------------------------
(* usage_notes.rs: parse_usage_notes *)

UsageNotesStep ==
    /\ Running("parse_usage_notes")
    /\ HasNode(Top)
    /\ ~IsHeading(NodeAt(Top))
    /\ LET f == Top
           node == NodeAt(f)
           items == UsageNotesItems(R(context, <<>>), node.items, 1)
           element == UsageNotesElement(context, node)
       IN  IF node.type = "UnorderedList"
           THEN Step(items.ctx,
                     WithTop([Advance(f) EXCEPT !.usage_notes =
                                IF items.out # <<>>
                                THEN Append(@, FUnorderedList(items.out))
                                ELSE @]),
                     TRUE, returned)
           ELSE Step(element.ctx,
                     WithTop([Advance(f) EXCEPT !.usage_notes = Append(@, element.out)]),
                     TRUE, returned)
    /\ UNCHANGED language_entries

(* usage_notes.rs 123-128 *)
usage_notes_slot_present(usage_notes) == Some(Some(usage_notes))

usage_notes_slot(usage_notes) ==
    IF usage_notes = <<>> THEN Some(None) ELSE Some(Some(usage_notes))

UsageNotesReturn ==
    /\ Running("parse_usage_notes")
    /\ HasNode(Top) => IsHeading(NodeAt(Top))
    /\ LET f == Top
           ctx == IF f.usage_notes = <<>>
                  THEN add_warning(context, HeadingNode(f), "SectionEmpty")
                  ELSE context
       IN  Step(ctx,
                ReturnTo([Resume(Caller, f.node_index) EXCEPT
                            !.usage_notes = usage_notes_slot(f.usage_notes)]),
                FALSE, Returned(f))
    /\ UNCHANGED language_entries

----------------------------------------------------------------------------
(* Inputs: node sequences as parse_wiki_text delivers them.  Each family   *)
(* puts a fixed prefix before every sequence over the nodes one parser     *)
(* distinguishes.                                                          *)

MaxTop == 3
MaxLanguage == 3
MaxEtymology == 3
MaxPos == 3
MaxItem == 2
MaxUsageNotes == 3
MaxPronunciation == 3
MaxInflection == 3
MaxCalls == 2

SeqsUpTo(S, n) == UNION {[1..k -> S] : k \in 0..n}

Item(s) == ListItem(<<Text(s)>>)
PlainLink == Link("value", <<Text("value")>>)
Definitions == OrderedList(<<Item("A test."), ListItem(<<Text("See "), PlainLink>>)>>)
BoldLink == Link("value", <<Bold, Text("value"), Bold>>)
Label(code, labels) ==
    T("lb", <<Unnamed(<<Text(code)>>)>> \o [i \in 1..Len(labels) |-> Unnamed(<<Text(labels[i])>>)])
Audio == UnorderedList(<<ListItem(<<T("audio", <<Unnamed(<<Text("a.ogg")>>)>>)>>)>>)
Ipa == UnorderedList(<<ListItem(<<T("IPA", <<>>), Text(", ")>>), ListItem(<<T("rhymes", <<>>)>>)>>)
InflectionName(code, marker) ==
    Template(<<Node("Text", 0, <<code, marker, "x">>, <<>>, <<>>, <<>>)>>, <<>>)

InflectionWith(code, marker, ps) ==
    Template(<<Node("Text", 0, <<code, marker, "x">>, <<>>, <<>>, <<>>)>>, ps)

Arg(name, value) == Named(<<Text(name)>>, <<Text(value)>>)

TopNodes ==
    {H(1, "Title"), H(2, "English"), H(2, "German"), H(2, "Klingon"),
     T("also", <<Unnamed(<<Text("x")>>)>>), Text("x"), H(3, "Noun"), Definitions}

LanguageNodes ==
    {H(2, "English"), H(3, "Anagrams"), H(3, "Etymology"), H(3, "Etymology 1"),
     H(3, "Pronunciation"), H(3, "Noun"), H(3, "See also"), H(4, "Noun"),
     T("wikipedia", <<>>), Text("x"), Audio}

EtymologyNodes ==
    {H(3, "Etymology 1"), H(3, "Etymology 2"), H(3, "Noun"),
     H(4, "Alternative forms"), H(4, "Pronunciation"), H(4, "Noun"), H(4, "Verb"),
     H(5, "Synonyms"), Text("From x."), Ipa, Definitions}

PosNodes ==
    {T("en-noun", <<Unnamed(<<Text("s")>>)>>), T("head", <<Unnamed(<<Bold>>)>>),
     T("de-noun", <<>>), Definitions, OrderedList(<<>>), Text("x"),
     H(3, "Noun"), H(4, "Synonyms"), H(4, "Usage notes"), H(4, "References"),
     H(5, "Synonyms")}

ItemNodes ==
    {Text("A"), PlainLink, BoldLink, Bold, Italic,
     OrderedList(<<Item("B"), ListItem(<<Text("C"), OrderedList(<<Item("D")>>)>>)>>),
     OrderedList(<<ListItem(<<>>)>>),
     UnorderedList(<<Item("q1"), ListItem(<<Bold>>)>>),
     DefinitionList(<<Item("e1"), ListItem(<<Bold>>)>>),
     Label("en", <<"slang">>), Label("en", <<"slang", "slang">>), Label("de", <<"slang">>),
     T("defdate", <<Unnamed(<<Text("from 15th c.")>>)>>),
     T("defdate", <<Unnamed(<<Bold>>)>>),
     T("n-g", <<Unnamed(<<Text("Used"), PlainLink, Italic>>)>>),
     T("w", <<>>)}

(* Further shapes of the templates of a definition, each alone in an item. *)
ShapeNodes ==
    {T("defdate", <<>>),
     T("defdate", <<Unnamed(<<>>)>>),
     T("defdate", <<Unnamed(<<Text("a")>>), Unnamed(<<Text("b")>>)>>),
     T("defdate", <<Arg("1", "a")>>),
     T("defdate", <<Unnamed(<<Text("a"), CharacterEntity("amp")>>)>>),
     T("lb", <<>>),
     Label("en", <<>>),
     Label("de", <<>>),
     Label("en", <<"a", "b", "a", "b", "a">>),
     T("lb", <<Unnamed(<<Text("en")>>), Unnamed(<<>>)>>),
     T("label", <<Unnamed(<<Text("en")>>), Unnamed(<<Text("a")>>), Arg("x", "y")>>),
     T("lb", <<Unnamed(<<Text("en")>>), Unnamed(<<Text("a")>>), Unnamed(<<Bold>>)>>)}

UsageNotesNodes ==
    {Text("x"), Bold, BoldLink, Tag("ref"), Tag("nowiki"),
     T("m", <<Unnamed(<<Text("en")>>), Unnamed(<<Text("word")>>)>>),
     T("l", <<Unnamed(<<Text("en")>>), Unnamed(<<>>)>>),
     UnorderedList(<<ListItem(<<>>)>>),
     UnorderedList(<<ListItem(<<Text("y"), Italic, UnorderedList(<<Item("z")>>)>>),
                     ListItem(<<>>)>>),
     H(4, "Usage notes"), H(4, "Synonyms")}

PronunciationNodes ==
    {Audio, Ipa, UnorderedList(<<ListItem(<<>>)>>), Text("x"),
     OrderedList(<<ListItem(<<T("hyphenation", <<>>)>>)>>),
     UnorderedList(<<ListItem(<<OrderedList(<<ListItem(<<T("homophones", <<>>)>>)>>)>>)>>),
     H(3, "Pronunciation"), H(3, "Noun")}

InflectionNodes ==
    {InflectionName("en", "-conj-"), InflectionName("en", "-decl-"),
     InflectionName("de", "-conj-"),
     InflectionWith("en", "-conj-", <<Arg("a", "1"), Arg("b", "2"), Arg("a", "3"),
                                      Arg("a", "4")>>),
     InflectionWith("en", "-conj-", <<Arg("a", "1"), Named(<<Text("a")>>, <<Bold>>),
                                      Arg("a", "3")>>),
     Template(<<Text("en"), Bold>>, <<>>), Text("x"),
     H(4, "Conjugation"), H(4, "Declension")}

Prefixed(prefix, S, n) == {prefix \o d : d \in SeqsUpTo(S, n)}

TopDocuments == SeqsUpTo(TopNodes, MaxTop)

LanguageDocuments == Prefixed(<<H(2, "English")>>, LanguageNodes, MaxLanguage)

EtymologyDocuments ==
    Prefixed(<<H(2, "English"), H(3, "Etymology 1")>>, EtymologyNodes, MaxEtymology)

(* A second ordered list whose item holds a template parse_definition      *)
(* does not know.                                                          *)
LaterList == OrderedList(<<ListItem(<<T("w", <<>>)>>)>>)

PosDocuments ==
    Prefixed(<<H(2, "English"), H(3, "Noun")>>, PosNodes, MaxPos)
    \cup {<<H(2, "English"), H(3, "Noun"), Definitions, LaterList>>}

DefinitionDocuments ==
    {<<H(2, l), H(3, p), OrderedList(<<ListItem(d)>>)>> :
        l \in {"English", "German"}, p \in {"Noun", "Verb"},
        d \in SeqsUpTo(ItemNodes, MaxItem) \cup {<<t>> : t \in ShapeNodes}}

UsageNotesDocuments ==
    Prefixed(<<H(2, "English"), H(3, "Noun"), Definitions, H(4, "Usage notes")>>,
             UsageNotesNodes, MaxUsageNotes)

PronunciationDocuments ==
    Prefixed(<<H(2, "English"), H(3, "Pronunciation")>>,
             PronunciationNodes, MaxPronunciation)

(* Further shapes of the parameters of a template, each template alone in  *)
(* a section.                                                              *)
ParameterShapes ==
    {<<Unnamed(<<Bold>>), Unnamed(<<Bold>>)>>,
     <<Unnamed(<<Text("1")>>), Named(<<Bold>>, <<Bold>>), Unnamed(<<Bold>>)>>,
     <<Named(<<Text("a"), CharacterEntity("amp")>>, <<Text("1")>>), Arg("b", "2")>>,
     <<Unnamed(<<Text("a"), CharacterEntity("amp")>>), Arg("k", "v"), Unnamed(<<>>)>>}

InflectionDocuments ==
    Prefixed(<<H(2, "English"), H(3, "Verb"), Definitions, H(4, "Conjugation")>>,
             InflectionNodes, MaxInflection)
    \cup {<<H(2, "English"), H(3, "Verb"), Definitions, H(4, "Conjugation"),
            InflectionWith("en", "-conj-", ps)>> : ps \in ParameterShapes}

Placed(documents) == {PlaceSeq(d, 0) : d \in documents}

IsInput(ns) ==
    \/ ns \in Placed(TopDocuments)
    \/ ns \in Placed(LanguageDocuments)
    \/ ns \in Placed(EtymologyDocuments)
    \/ ns \in Placed(PosDocuments)
    \/ ns \in Placed(DefinitionDocuments)
    \/ ns \in Placed(UsageNotesDocuments)
    \/ ns \in Placed(PronunciationDocuments)
    \/ ns \in Placed(InflectionDocuments)

----------------------------------------------------------------------------

Init ==
    /\ IsInput(nodes)
    /\ context = NewContext(RenderSeq(nodes))
    /\ language_entries = <<>>
    /\ stack = <<ParseFrame>>
    /\ output = None
    /\ visits = [i \in 1..Len(nodes) |-> 0]
    /\ returned = None
    /\ calls = 1
    /\ previous = None

(* A further call of parse on the same input: lib.rs 438-444. *)
StaleContext == [context EXCEPT !.language = None]

FreshContext == NewContext(context.wiki_text)

ParseAgain ==
    /\ IsSome(output)
    /\ calls < MaxCalls
    /\ context' = FreshContext
    /\ language_entries' = <<>>
    /\ stack' = <<ParseFrame>>
    /\ output' = None
    /\ visits' = [i \in 1..Len(nodes) |-> 0]
    /\ returned' = None
    /\ calls' = calls + 1
    /\ previous' = output
    /\ UNCHANGED nodes

Next ==
    \/ ParseStep
    \/ ParseReturn
    \/ LanguageStep
    \/ LanguageReturn
    \/ EtymologyTextStep
    \/ EtymologyTextEnd
    \/ EtymologyStep
    \/ EtymologyReturn
    \/ PosHeadStep
    \/ PosHeadEnd
    \/ PosStep
    \/ PosReturn
    \/ SupplementaryStep
    \/ SupplementaryReturn
    \/ PronunciationStep
    \/ PronunciationReturn
    \/ InflectionStep
    \/ InflectionReturn
    \/ UsageNotesStep
    \/ UsageNotesReturn

Spec == Init /\ [][Next]_vars

RepeatSpec == Init /\ [][Next \/ ParseAgain]_vars

----------------------------------------------------------------------------
(* Properties *)

Last(seq) == seq[Len(seq)]
Count(seq, P(_)) == Cardinality({i \in 1..Len(seq) : P(seq[i])})
Spans(w, node) == w.start = node.start /\ w.end = node.end

C2_LanguageSet ==
    /\ ~context.panicked
    /\ \A i \in 1..Len(stack) :
          stack[i].fn # "parse" => IsSome(context.language)
    /\ stack # <<>> /\ Top.fn = "parse" => context.language = None
    /\ nodes = <<>> /\ IsSome(output) =>
          output[1] = [language_entries |-> <<>>, warnings |-> <<>>]

C2_Witness ==
    /\ Running("parse_inflection")
    /\ IsSome(Top.inflection)
    /\ IsSome(Top.inflection[1])
    /\ HasNode(Top)

(* C3: parse terminates: every step of every scanning loop either moves    *)
(* the innermost cursor forward (also across a call, also when             *)
(* parse_usage_notes returns 0 for a repeated heading) or leaves the loop  *)
(* (a phase ends or a parser returns), so the number of steps is bounded,   *)
(* and until parse has returned some parser is running.                    *)
Remaining == IF stack = <<>> THEN 0 ELSE Len(nodes) - Position(Top)
InFirstPhase(f) == f.fn \in {"parse_etymology", "parse_pos"} /\ f.phase = 1
Depth ==
    IF stack = <<>> THEN 0
    ELSE 2 * Len(stack) + (IF InFirstPhase(Top) THEN 1 ELSE 0)

Progress ==
    /\ Remaining' >= 0
    /\ output' = None => stack' # <<>> /\ ~context'.panicked
    /\ \/ Remaining' < Remaining
       \/ Remaining' = Remaining /\ Depth' < Depth

C3_Terminates == [][Progress]_vars

C3_Witness ==
    /\ Running("parse_pos")
    /\ returned = Returned(UsageNotesFrame(Position(Top)))
    /\ Last(context.warnings).message = "Duplicate"
    /\ Spans(Last(context.warnings), nodes[Position(Top)])

(* C4: within parse_language, parse_etymology and parse_pos every sibling  *)
(* between the section's heading and the node that ends the section (the   *)
(* next heading that is not deeper than the section's heading, or the end  *)
(* of the input) is consumed exactly once, by the section's own loop or by *)
(* one sub-parser, and the count the section parser returns is the number  *)
(* of those siblings.                                                      *)
EndsSection(heading, i) ==
    i > Len(nodes) \/ (IsHeading(nodes[i]) /\ nodes[i].level <= nodes[heading].level)

(* The number of siblings after the heading at index `heading` that belong *)
(* to its section.                                                         *)
SectionLength(heading) ==
    CHOOSE k \in 0..Len(nodes) :
        /\ EndsSection(heading, heading + k + 1)
        /\ \A j \in 1..k : ~EndsSection(heading, heading + j)

IsSection(fn) == fn \in {"parse_language", "parse_etymology", "parse_pos"}

C4_ConsumedOnce ==
    /\ \A i \in 1..Len(nodes) : visits[i] <= 1
    /\ \A i \in 1..Len(nodes) : \A j \in 1..Len(nodes) :
          i < j /\ visits[j] = 1 => visits[i] = 1
    /\ stack # <<>> =>
          \A i \in 1..Len(nodes) : visits[i] = 1 <=> i <= Position(Top)
    /\ \A d \in 1..Len(stack) :
          IsSection(stack[d].fn) =>
              stack[d].node_index <= SectionLength(stack[d].heading)
    /\ IsSome(returned) /\ IsSection(returned[1].fn) =>
          returned[1].count = SectionLength(returned[1].base)

C4_Witness ==
    /\ IsSome(returned)
    /\ returned[1].fn = "parse_etymology"
    /\ returned[1].count >= 2
    /\ Running("parse_language")
    /\ HasNode(Top)
    /\ Position(Top) = returned[1].base + returned[1].count

(* C5: every Flowing::Unknown element holds exactly the source text of the *)
(* node that could not be classified: the element made for the k-th        *)
(* non-list node of a list item, for a node of a 'Usage notes' section or  *)
(* for a node of a non-gloss value, if it is Unknown, holds that whole     *)
(* node's source (for a rejected template the whole template, also when    *)
(* the warning spans one parameter), and the Unknown values in the final   *)
(* output are sources of nodes of the input.                               *)
IsList(node) == node.type \in {"DefinitionList", "OrderedList", "UnorderedList"}
IsOrderedList(node) == node.type = "OrderedList"
NotList(node) == ~IsList(node)
HasNodes(item) == item.nodes # <<>>

ExactElement(element, node) ==
    /\ element.type = "Unknown" => element.value = RenderNode(node)
    /\ element.type = "NonGlossDefinition" =>
          /\ Len(element.value) = Len(node.parameters[1].value)
          /\ \A j \in 1..Len(element.value) :
                element.value[j].type = "Unknown" =>
                    element.value[j].value = RenderNode(node.parameters[1].value[j])

ExactElements(elements, ns) ==
    /\ Len(elements) = Len(ns)
    /\ \A k \in 1..Len(ns) : ExactElement(elements[k], ns[k])

RECURSIVE ExactDefinition(_, _)
ExactDefinition(definition, item) ==
    LET lists == SelectSeq(item.nodes, IsOrderedList)
    IN  /\ ExactElements(definition.definition, SelectSeq(item.nodes, NotList))
        /\ Len(lists) = 1 =>
              /\ Len(definition.definitions) = Len(lists[1].items)
              /\ \A i \in 1..Len(lists[1].items) :
                    ExactDefinition(definition.definitions[i], lists[1].items[i])

ExactList(list, node) ==
    LET filled == SelectSeq(node.items, HasNodes)
    IN  /\ list.type = "UnorderedList"
        /\ Len(list.items) = Len(filled)
        /\ \A i \in 1..Len(filled) : ExactElements(list.items[i], filled[i].nodes)

RECURSIVE NodeSources(_)
NodeSources(ns) ==
    UNION {{RenderNode(ns[i])}
           \cup NodeSources(ns[i].nodes)
           \cup UNION {NodeSources(ns[i].items[j].nodes) : j \in 1..Len(ns[i].items)}
           \cup UNION {NodeSources(ns[i].parameters[j].value) :
                          j \in 1..Len(ns[i].parameters)} :
           i \in 1..Len(ns)}

RECURSIVE FlowingUnknowns(_)
FlowingUnknowns(elements) ==
    UNION {CASE elements[k].type = "Unknown" -> {elements[k].value}
             [] elements[k].type = "NonGlossDefinition" ->
                    FlowingUnknowns(elements[k].value)
             [] elements[k].type = "UnorderedList" ->
                    UNION {FlowingUnknowns(elements[k].items[i]) :
                              i \in 1..Len(elements[k].items)}
             [] OTHER -> {} :
           k \in 1..Len(elements)}

RECURSIVE DefinitionUnknowns(_)
DefinitionUnknowns(definitions) ==
    UNION {FlowingUnknowns(definitions[i].definition)
           \cup DefinitionUnknowns(definitions[i].definitions) :
           i \in 1..Len(definitions)}

PosUnknowns(pos_entries) ==
    UNION {DefinitionUnknowns(pos_entries[i].definitions)
           \cup FlowingUnknowns(unwrap_or_default(pos_entries[i].usage_notes, <<>>)) :
           i \in 1..Len(pos_entries)}

EntryUnknowns(entries) ==
    UNION {PosUnknowns(entries[i].etymology_entry.pos_entries)
           \cup UNION {PosUnknowns(entries[i].etymology_entries[j].pos_entries) :
                          j \in 1..Len(entries[i].etymology_entries)} :
           i \in 1..Len(entries)}

UnknownExact ==
    /\ /\ Running("parse_pos")
       /\ Top.phase = 1
       /\ HasNode(Top)
       /\ IsOrderedList(NodeAt(Top))
       /\ Top.definitions = None
       => /\ IsSome(Top'.definitions)
          /\ Len(Top'.definitions[1]) = Len(NodeAt(Top).items)
          /\ \A i \in 1..Len(NodeAt(Top).items) :
                ExactDefinition(Top'.definitions[1][i], NodeAt(Top).items[i])
    /\ /\ Running("parse_usage_notes")
       /\ HasNode(Top)
       /\ ~IsHeading(NodeAt(Top))
       => IF NodeAt(Top).type = "UnorderedList"
          THEN IF SelectSeq(NodeAt(Top).items, HasNodes) = <<>>
               THEN Top'.usage_notes = Top.usage_notes
               ELSE /\ Len(Top'.usage_notes) = Len(Top.usage_notes) + 1
                    /\ ExactList(Last(Top'.usage_notes), NodeAt(Top))
          ELSE /\ Len(Top'.usage_notes) = Len(Top.usage_notes) + 1
               /\ ExactElement(Last(Top'.usage_notes), NodeAt(Top))
    /\ IsSome(output') =>
          EntryUnknowns(output'[1].language_entries) \subseteq NodeSources(nodes)

C5_UnknownExact == [][UnknownExact]_vars

C5_Witness ==
    /\ Running("parse_pos")
    /\ IsSome(Top.definitions)
    /\ \E i \in 1..Len(Top.definitions[1]) :
          \E k \in 1..Len(Top.definitions[1][i].definition) :
              Top.definitions[1][i].definition[k]
                  = FUnknown(RenderNode(Label("de", <<"slang">>)))
    /\ Last(context.warnings).message = "ValueConflicting"
    /\ Last(context.warnings).end - Last(context.warnings).start = 1

(* The 'Usage notes' headings a part-of-speech section has dispatched, the *)
(* nodes of such a subsection, and whether they yield any content.         *)
IsUsageNotesHeading(f, node) ==
    /\ IsHeading(node)
    /\ node.level = f.heading_level
    /\ parse_text(node.nodes) = Some(Str("Usage notes"))

UsageNotesHeadings(f) ==
    {h \in (f.base + 1)..Position(f) : IsUsageNotesHeading(f, nodes[h])}

SubsectionEnd(h) ==
    CHOOSE j \in (h + 1)..(Len(nodes) + 1) :
        /\ j > Len(nodes) \/ IsHeading(nodes[j])
        /\ \A i \in (h + 1)..(j - 1) : ~IsHeading(nodes[i])

YieldsContent(node) ==
    node.type = "UnorderedList" => \E i \in 1..Len(node.items) : HasNodes(node.items[i])

YieldsNothing(h) == \A i \in (h + 1)..(SubsectionEnd(h) - 1) : ~YieldsContent(nodes[i])

(* The usage_notes field of a section without any subsection. *)
AbsentUsageNotes(f) == PosEntry(PosFrame(f.base, f.heading_level, f.pos)).usage_notes

InSecondPhase == Running("parse_pos") /\ Top.phase = 2

OneEmptyUsageNotes ==
    /\ InSecondPhase
    /\ Cardinality(UsageNotesHeadings(Top)) = 1
    /\ \A h \in UsageNotesHeadings(Top) : YieldsNothing(h)

DuplicateAdded(node) ==
    context'.warnings = Append(context.warnings, Warning(context.language, node, "Duplicate"))

AtNode == output = None /\ stack # <<>> /\ ~context.panicked /\ HasNode(Top)

(* The presence flag the heading at the cursor is dispatched to, if any. *)
PresenceField ==
    IF ~(AtNode /\ IsHeading(NodeAt(Top))) THEN None
    ELSE LET node == NodeAt(Top)
             text == parse_text(node.nodes)
         IN  CASE Top.fn = "parse_language" /\ node.level = 3 ->
                      LanguageSupplementary(text)
               [] Top.fn = "parse_etymology" /\ Top.phase = 2 /\ node.level = 4 ->
                      IF text = Some(Str("Alternative forms"))
                      THEN Some("alternative_forms") ELSE None
               [] Top.fn = "parse_pos" /\ Top.phase = 2
                  /\ node.level = Top.heading_level ->
                      PosSupplementary(text)
               [] OTHER -> None

RepeatedPresence == IsSome(PresenceField) /\ Top[PresenceField[1]]

RepeatedPronunciation ==
    /\ AtNode
    /\ IsHeading(NodeAt(Top))
    /\ parse_text(NodeAt(Top).nodes) = Some(Str("Pronunciation"))
    /\ \/ Top.fn = "parse_language" /\ NodeAt(Top).level = 3
       \/ Top.fn = "parse_etymology" /\ Top.phase = 2 /\ NodeAt(Top).level = 4
    /\ IsSome(Top.pronunciation)

InRepeatedPronunciation ==
    /\ Running("parse_pronunciation")
    /\ HasNode(Top)
    /\ ~IsHeading(NodeAt(Top))
    /\ \E i \in 1..Len(context.warnings) :
          /\ context.warnings[i].message = "Duplicate"
          /\ Spans(context.warnings[i], HeadingNode(Top))

RepeatedHead ==
    /\ Running("parse_pos")
    /\ Top.phase = 1
    /\ HasNode(Top)
    /\ IsHeadTemplate(context, NodeAt(Top))
    /\ IsSome(Top.head)

RepeatedDefinitions ==
    /\ Running("parse_pos")
    /\ Top.phase = 1
    /\ HasNode(Top)
    /\ IsOrderedList(NodeAt(Top))
    /\ IsSome(Top.definitions)

FirstDefinitions ==
    /\ Running("parse_pos")
    /\ Top.phase = 1
    /\ HasNode(Top)
    /\ IsOrderedList(NodeAt(Top))
    /\ Top.definitions = None

RepeatedInflection ==
    /\ Running("parse_inflection")
    /\ HasNode(Top)
    /\ IsInflectionTemplate(context, NodeAt(Top), Top.template_name)
    /\ IsSome(Top.inflection)

RepeatedUsageNotes ==
    /\ InSecondPhase
    /\ HasNode(Top)
    /\ IsUsageNotesHeading(Top, NodeAt(Top))
    /\ IsSome(Top.usage_notes)

NestedLists(item) == SelectSeq(item.nodes, IsOrderedList)

(* The item up to, not including, its second nested ordered list. *)
RECURSIVE UpToSecondList(_, _)
UpToSecondList(ns, seen) ==
    IF ns = <<>> THEN <<>>
    ELSE IF IsOrderedList(Head(ns)) /\ seen THEN <<>>
    ELSE <<Head(ns)>> \o UpToSecondList(Tail(ns), seen \/ IsOrderedList(Head(ns)))

FirstNested(item) ==
    parse_definition(context, [item EXCEPT !.nodes = UpToSecondList(@, FALSE)]).out.definitions

OneDuplicateEach(lists) ==
    \A j \in 2..Len(lists) :
        LET IsDuplicate(w) == w.message = "Duplicate" /\ Spans(w, lists[j])
        IN  Count(context'.warnings, IsDuplicate) = 1

(* What every second occurrence does, whatever becomes of the value. *)
FlaggedOnce ==
    /\ RepeatedPresence => DuplicateAdded(NodeAt(Top))
    /\ RepeatedPronunciation => DuplicateAdded(NodeAt(Top))
    /\ RepeatedHead => DuplicateAdded(NodeAt(Top))
    /\ RepeatedDefinitions => DuplicateAdded(NodeAt(Top))
    /\ RepeatedInflection => DuplicateAdded(NodeAt(Top))
    /\ RepeatedUsageNotes => DuplicateAdded(NodeAt(Top))
    /\ FirstDefinitions =>
          \A i \in 1..Len(NodeAt(Top).items) :
              OneDuplicateEach(NestedLists(NodeAt(Top).items[i]))

FirstKept ==
    /\ RepeatedPresence => stack'[Len(stack)][PresenceField[1]]
    /\ RepeatedPronunciation => Top'.pronunciation = Top.pronunciation[1]
    /\ InRepeatedPronunciation => Top'.pronunciation = Top.pronunciation
    /\ RepeatedHead => PosEntry(Top').head = PosEntry(Top).head
    /\ RepeatedDefinitions => PosEntry(Top').definitions = PosEntry(Top).definitions
    /\ RepeatedInflection => Top'.inflection = Top.inflection
    /\ RepeatedUsageNotes => PosEntry(Top').usage_notes = PosEntry(Top).usage_notes
    /\ FirstDefinitions =>
          \A i \in 1..Len(NodeAt(Top).items) :
              Len(NestedLists(NodeAt(Top).items[i])) > 1 =>
                  Top'.definitions[1][i].definitions = FirstNested(NodeAt(Top).items[i])

FirstDiscarded ==
    /\ RepeatedPresence => stack'[Len(stack)][PresenceField[1]]
    /\ RepeatedPronunciation => Top'.pronunciation = Top.pronunciation[1]
    /\ InRepeatedPronunciation =>
          \A flag \in DOMAIN Top.pronunciation :
              Top.pronunciation[flag] => Top'.pronunciation[flag]
    /\ Running("parse_pronunciation") /\ Len(stack') < Len(stack) =>
          Top'.pronunciation = Some(Top.pronunciation)
    /\ RepeatedHead => PosEntry(Top').head = None
    /\ RepeatedDefinitions => PosEntry(Top').definitions = <<>>
    /\ RepeatedInflection => Top'.inflection = Some(None)
    /\ Running("parse_inflection") /\ Len(stack') < Len(stack) /\ Top.inflection = Some(None) =>
          Top'.inflection = Caller.inflection
    /\ RepeatedUsageNotes => PosEntry(Top').usage_notes = None
    /\ FirstDefinitions =>
          \A i \in 1..Len(NodeAt(Top).items) :
              Len(NestedLists(NodeAt(Top).items[i])) > 1 =>
                  Top'.definitions[1][i].definitions = <<>>

(* C7 as stated: for presence subsections, Pronunciation, the head         *)
(* template, the definition ordered list, a nested ordered list, the       *)
(* inflection template and Usage notes, processing a second occurrence     *)
(* leaves the value recorded from the first occurrence unchanged and       *)
(* appends exactly one Duplicate warning.                                  *)
C7_FirstWins == [][FlaggedOnce /\ FirstKept]_vars

(* C7, amended: processing a second occurrence of any of these constructs  *)
(* appends exactly one Duplicate warning on it, but only the presence      *)
(* flags keep the first occurrence's value: a repeated Pronunciation       *)
(* section keeps the flags already set and may set further ones, and a     *)
(* repeated head template, definition ordered list, nested ordered list,   *)
(* inflection template or 'Usage notes' subsection discards the recorded   *)
(* value (head absent, definitions empty, nested definitions empty, no     *)
(* inflection template appended by the section, usage_notes absent).       *)
C7_FlaggedAndDiscarded == [][FlaggedOnce /\ FirstDiscarded]_vars

C7_Witness ==
    /\ Running("parse_pos")
    /\ Top.phase = 1
    /\ Top.head = Some(None)
    /\ Top.node_index = 2
    /\ Len(context.warnings) = 1
    /\ Last(context.warnings).message = "Duplicate"
    /\ Spans(Last(context.warnings), nodes[Position(Top)])

(* C8: a node sequence of one recognized language heading (level 2), one   *)
(* recognized part-of-speech heading (level 3) and one ordered list whose  *)
(* k items consist of text and links with plain display text yields one    *)
(* LanguageEntry of that language whose etymology_entry has one PosEntry   *)
(* of that part of speech with the k definitions in item order, and no     *)
(* warnings.                                                               *)
IsPlain(node) ==
    \/ node.type = "Text"
    \/ node.type = "Link" /\ IsSome(parse_text(node.nodes))

MinimalArticle ==
    /\ Len(nodes) = 3
    /\ IsHeading(nodes[1])
    /\ nodes[1].level = 2
    /\ IsSome(HeadingLanguage(nodes[1]))
    /\ IsHeading(nodes[2])
    /\ nodes[2].level = 3
    /\ IsSome(HeadingPos(parse_text(nodes[2].nodes)))
    /\ IsOrderedList(nodes[3])
    /\ \A i \in 1..Len(nodes[3].items) :
          /\ HasNodes(nodes[3].items[i])
          /\ \A k \in 1..Len(nodes[3].items[i].nodes) : IsPlain(nodes[3].items[i].nodes[k])

PlainElement(node) ==
    IF node.type = "Text" THEN [type |-> "Text", value |-> node.value]
    ELSE [type |-> "Link", target |-> node.value, text |-> ConcatValues(node.nodes)]

PlainDefinition(item) ==
    [definition |-> [k \in 1..Len(item.nodes) |-> PlainElement(item.nodes[k])],
     definitions |-> <<>>, examples |-> 0, quotations |-> 0]

C8_MinimalArticle ==
    IsSome(output) /\ MinimalArticle =>
        /\ output[1].warnings = <<>>
        /\ Len(output[1].language_entries) = 1
        /\ LET entry == output[1].language_entries[1]
               entries == entry.etymology_entry.pos_entries
           IN  /\ entry.language = from_name(parse_text(nodes[1].nodes)[1])[1]
               /\ entry.etymology_entries = <<>>
               /\ Len(entries) = 1
               /\ entries[1].pos = pos_from_name(parse_text(nodes[2].nodes)[1])[1]
               /\ entries[1].definitions
                      = [i \in 1..Len(nodes[3].items) |-> PlainDefinition(nodes[3].items[i])]

C8_Witness ==
    /\ IsSome(output)
    /\ MinimalArticle
    /\ Len(nodes[3].items) = 2
    /\ \E k \in 1..Len(nodes[3].items[2].nodes) : nodes[3].items[2].nodes[k].type = "Link"
    /\ Len(output[1].language_entries[1].etymology_entry.pos_entries[1].definitions) = 2

(* C9: every level-2 heading with a recognized language name that the     *)
(* top-level loop reaches appends exactly one LanguageEntry, in document   *)
(* order, also when an entry of that language exists; a repeated language  *)
(* heading gets exactly one Duplicate warning spanning it, however many    *)
(* earlier entries share the language, a first one gets none, and entries  *)
(* already appended are not modified.                                      *)
LanguageHeadings ==
    {h \in 1..Len(nodes) : visits[h] > 0 /\ IsSome(HeadingLanguage(nodes[h]))}

NthHeading(k) ==
    CHOOSE h \in LanguageHeadings : Cardinality({g \in LanguageHeadings : g <= h}) = k

LanguageOf(h) == HeadingLanguage(nodes[h])[1]

SectionsDone ==
    IF Len(stack) > 1 THEN Cardinality(LanguageHeadings) - 1
    ELSE Cardinality(LanguageHeadings)

EntriesFollowHeadings ==
    /\ Len(language_entries) = SectionsDone
    /\ \A k \in 1..SectionsDone :
          language_entries[k].language = LanguageOf(NthHeading(k))
    /\ \A h \in LanguageHeadings :
          LET IsDuplicate(w) == w.message = "Duplicate" /\ Spans(w, nodes[h])
              repeated == \E g \in LanguageHeadings : g < h /\ LanguageOf(g) = LanguageOf(h)
          IN  Count(context.warnings, IsDuplicate) = IF repeated THEN 1 ELSE 0
    /\ IsSome(output) => output[1].language_entries = language_entries

AppendOnly ==
    /\ Len(language_entries') \in {Len(language_entries), Len(language_entries) + 1}
    /\ SubSeq(language_entries', 1, Len(language_entries)) = language_entries

C9_OneEntryPerHeading == [][EntriesFollowHeadings' /\ AppendOnly]_vars

C9_Witness ==
    /\ IsSome(output)
    /\ Len(output[1].language_entries) = 3
    /\ \A k \in 1..3 : output[1].language_entries[k].language = "En"
    /\ LET IsDuplicate(w) == w.message = "Duplicate"
       IN  Count(output[1].warnings, IsDuplicate) = 2

(* C10: a level-1 heading met by the top-level loop is marked Unrecognized *)
(* and ends the scan at once: it is the last warning, with no language,    *)
(* neither it nor any node after it is consumed, no warning lies after it, *)
(* and the language entries are those of the headings before it.           *)
TitleHeadings == {t \in 1..Len(nodes) : IsHeading(nodes[t]) /\ nodes[t].level = 1}

FirstTitle == CHOOSE t \in TitleHeadings : \A u \in TitleHeadings : t <= u

C10_TitleEndsScan ==
    TitleHeadings # {} =>
        /\ \A i \in FirstTitle..Len(nodes) : visits[i] = 0
        /\ \A i \in 1..Len(context.warnings) :
              context.warnings[i].end <= nodes[FirstTitle].end
        /\ IsSome(output) =>
              /\ output[1].warnings # <<>>
              /\ Last(output[1].warnings)
                     = [end |-> nodes[FirstTitle].end, language |-> None,
                        message |-> "Unrecognized", start |-> nodes[FirstTitle].start]
              /\ LET OnTitle(w) == Spans(w, nodes[FirstTitle])
                 IN  Count(output[1].warnings, OnTitle) = 1
              /\ Len(output[1].language_entries)
                     = Cardinality({h \in 1..(FirstTitle - 1) :
                                       IsSome(HeadingLanguage(nodes[h]))})

C10_Witness ==
    /\ IsSome(output)
    /\ TitleHeadings # {}
    /\ FirstTitle > 1
    /\ FirstTitle < Len(nodes)
    /\ IsSome(HeadingLanguage(nodes[FirstTitle + 1]))
    /\ Len(output[1].language_entries) = 1

(* Level-2 headings whose text is not a recognized language name, and the  *)
(* part of the input before the first level-1 heading.                     *)
UnmatchedHeadings ==
    {u \in 1..Len(nodes) :
        IsHeading(nodes[u]) /\ nodes[u].level = 2 /\ HeadingLanguage(nodes[u]) = None}

BeforeTitle(i) == \A t \in TitleHeadings : i < t

ReachedUnmatched == {u \in UnmatchedHeadings : BeforeTitle(u)}

FirstUnmatched == CHOOSE u \in ReachedUnmatched : \A v \in ReachedUnmatched : u <= v

(* C11 as stated: a level-2 heading whose text is not a recognized         *)
(* language name is marked Unrecognized and ends top-level scanning: no    *)
(* node after it is consumed, contributes a warning or contributes a       *)
(* language entry.                                                         *)
C11_UnmatchedEndsScan ==
    ReachedUnmatched # {} =>
        /\ \A i \in (FirstUnmatched + 1)..Len(nodes) : visits[i] = 0
        /\ \A i \in 1..Len(context.warnings) :
              context.warnings[i].end <= nodes[FirstUnmatched].end
        /\ IsSome(output) =>
              Len(output[1].language_entries)
                  = Cardinality({h \in 1..(FirstUnmatched - 1) :
                                    IsSome(HeadingLanguage(nodes[h]))})

(* C11, amended: a level-2 heading whose text is not a recognized language *)
(* name is marked Unrecognized (once, with no language) and consumed, and  *)
(* top-level scanning continues after it: every node before the first     *)
(* level-1 heading is consumed, and every recognized language heading      *)
(* before the first level-1 heading, also one after the unmatched heading, *)
(* contributes its language entry.                                         *)
C11_ScanContinues ==
    /\ \A u \in ReachedUnmatched :
          visits[u] > 0 =>
              LET OnHeading(w) == Spans(w, nodes[u])
                  Marked(w) == /\ Spans(w, nodes[u])
                               /\ w.message = "Unrecognized"
                               /\ w.language = None
              IN  /\ Count(context.warnings, OnHeading) = 1
                  /\ Count(context.warnings, Marked) = 1
    /\ IsSome(output) =>
          /\ \A i \in 1..Len(nodes) : BeforeTitle(i) => visits[i] = 1
          /\ Len(output[1].language_entries)
                 = Cardinality({h \in 1..Len(nodes) :
                                   BeforeTitle(h) /\ IsSome(HeadingLanguage(nodes[h]))})

C11_Witness ==
    /\ IsSome(output)
    /\ ReachedUnmatched # {}
    /\ FirstUnmatched < Len(nodes)
    /\ \E h \in (FirstUnmatched + 1)..Len(nodes) :
          BeforeTitle(h) /\ IsSome(HeadingLanguage(nodes[h]))
    /\ Len(output[1].language_entries) > 0
    /\ \E i \in 1..Len(output[1].warnings) :
          output[1].warnings[i].start >= nodes[FirstUnmatched].end

----------------------------------------------------------------------------
(* The language section a warning lies in, read off the input: the top-    *)
(* level node that holds the warning's range, and the recognized language  *)
(* heading that opens the section this node belongs to, if any.  A list   *)
(* without items renders to no text, so an empty range can touch more than *)
(* one top-level node.                                                     *)
Holders(w) ==
    {i \in 1..Len(nodes) : nodes[i].start <= w.start /\ w.end <= nodes[i].end}

OpensSection(h) ==
    /\ IsHeading(nodes[h])
    /\ nodes[h].level = 2
    /\ IsSome(parse_text(nodes[h].nodes))
    /\ IsSome(from_name(parse_text(nodes[h].nodes)[1]))
    /\ \A t \in 1..h : IsHeading(nodes[t]) => nodes[t].level # 1

InSectionOf(h, i) ==
    /\ OpensSection(h)
    /\ h <= i
    /\ \A j \in (h + 1)..i : IsHeading(nodes[j]) => nodes[j].level >= 3

ActiveLanguage(i) ==
    IF \E h \in 1..i : InSectionOf(h, i)
    THEN from_name(parse_text(nodes[CHOOSE h \in 1..i : InSectionOf(h, i)].nodes)[1])
    ELSE None

(* C12: every warning carries the language that is active where it is      *)
(* emitted: the section's language for a warning inside a recognized       *)
(* language section (the Duplicate and SectionEmpty warnings on the        *)
(* section's own heading included), no language for a warning of the       *)
(* top-level loop; and the context's language is none whenever control is  *)
(* back in parse after parse_language has returned.                        *)
C12_WarningLanguage ==
    /\ \A i \in 1..Len(context.warnings) :
          \E k \in Holders(context.warnings[i]) :
              context.warnings[i].language = ActiveLanguage(k)
    /\ (stack = <<>> \/ Top.fn = "parse") => context.language = None
    /\ (stack # <<>> /\ Top.fn # "parse") => context.language = Some(stack[2].language)

C12_Witness ==
    /\ IsSome(output)
    /\ \E h \in 1..Len(nodes) :
          /\ OpensSection(h)
          /\ \E i, j \in 1..Len(output[1].warnings) :
                /\ Spans(output[1].warnings[i], nodes[h])
                /\ output[1].warnings[i].message = "Duplicate"
                /\ IsSome(output[1].warnings[i].language)
                /\ Spans(output[1].warnings[j], nodes[h])
                /\ output[1].warnings[j].message = "SectionEmpty"
                /\ IsSome(output[1].warnings[j].language)
    /\ \E i \in 1..Len(output[1].warnings) :
          /\ output[1].warnings[i].language = None
          /\ Holders(output[1].warnings[i]) = {Len(nodes)}
          /\ \E h \in 1..(Len(nodes) - 1) : OpensSection(h)

----------------------------------------------------------------------------
(* The part-of-speech headings of one level among nodes from..to, in       *)
(* order, and the numbered etymology headings of a language section.       *)
RECURSIVE PosAt(_, _, _)
PosAt(from, to, level) ==
    IF from > to THEN <<>>
    ELSE LET node == nodes[from]
             pos == IF IsHeading(node) /\ node.level = level
                    THEN HeadingPos(parse_text(node.nodes)) ELSE None
         IN  pos \o PosAt(from + 1, to, level)

Poses(entries) == [i \in 1..Len(entries) |-> entries[i].pos]

NumberedHeadings(h) ==
    {g \in (h + 1)..(h + SectionLength(h)) :
        /\ IsHeading(nodes[g])
        /\ nodes[g].level = 3
        /\ IsNumberedEtymology(parse_text(nodes[g].nodes))}

NthNumbered(h, e) ==
    CHOOSE g \in NumberedHeadings(h) :
        Cardinality({x \in NumberedHeadings(h) : x <= g}) = e

(* C13: in every language entry of the output, the entry's own             *)
(* etymology_entry.pos_entries holds exactly the part-of-speech sections   *)
(* headed at level 3 in the language section, in order, and each numbered  *)
(* etymology's pos_entries holds exactly the part-of-speech sections       *)
(* headed at level 4 between its "Etymology N" heading and the next        *)
(* heading of level 3 or below; none appears in the other place, also      *)
(* when level-3 part-of-speech headings follow a numbered etymology.       *)
C13_PosEntriesSeparate ==
    IsSome(output) =>
        \A k \in 1..Len(output[1].language_entries) :
            LET h == NthHeading(k)
                entry == output[1].language_entries[k]
            IN  /\ Poses(entry.etymology_entry.pos_entries)
                       = PosAt(h + 1, h + SectionLength(h), 3)
                /\ Len(entry.etymology_entries) = Cardinality(NumberedHeadings(h))
                /\ \A e \in 1..Len(entry.etymology_entries) :
                      LET g == NthNumbered(h, e)
                      IN  Poses(entry.etymology_entries[e].pos_entries)
                              = PosAt(g + 1, g + SectionLength(g), 4)

C13_Witness ==
    /\ IsSome(output)
    /\ \E k \in 1..Len(output[1].language_entries) :
          LET entry == output[1].language_entries[k]
          IN  /\ Len(entry.etymology_entries) = 1
              /\ Poses(entry.etymology_entries[1].pos_entries) = <<"Verb">>
              /\ Poses(entry.etymology_entry.pos_entries) = <<"Noun">>
              /\ NumberedHeadings(NthHeading(k)) # {}
              /\ \E j \in 1..Len(nodes) :
                    /\ j > NthNumbered(NthHeading(k), 1)
                    /\ IsHeading(nodes[j])
                    /\ nodes[j].level = 3

----------------------------------------------------------------------------
(* The parameters of a template as parse_template meets them: the first    *)
(* one whose name or value is not plain text ends the function, and a      *)
(* repeat is a named parameter whose name an earlier one has.              *)
Fails(ps, i) ==
    \/ IsSome(ps[i].name) /\ parse_parameter_name(ps[i]) = None
    \/ parse_text(ps[i].value) = None

FirstFailure(ps) ==
    IF \E i \in 1..Len(ps) : Fails(ps, i)
    THEN CHOOSE i \in 1..Len(ps) : Fails(ps, i) /\ \A j \in 1..(i - 1) : ~Fails(ps, j)
    ELSE Len(ps) + 1

IsRepeat(ps, i) ==
    /\ IsSome(parse_parameter_name(ps[i]))
    /\ \E j \in 1..(i - 1) : parse_parameter_name(ps[j]) = parse_parameter_name(ps[i])

LastOf(ps, n) ==
    CHOOSE i \in 1..Len(ps) :
        /\ parse_parameter_name(ps[i]) = Some(n)
        /\ \A j \in (i + 1)..Len(ps) : parse_parameter_name(ps[j]) # Some(n)

NewWarnings == SubSeq(context'.warnings, Len(context.warnings) + 1, Len(context'.warnings))

(* A step of parse_inflection that hands the template at the cursor to     *)
(* parse_template and stores the result.                                   *)
TemplateParsed ==
    /\ stack # <<>> /\ stack' # <<>>
    /\ Len(stack') = Len(stack)
    /\ Top.fn = "parse_inflection"
    /\ Top.inflection = None
    /\ Top'.inflection # None

TemplateResult ==
    LET ps == NodeAt(Top).parameters
        result == Top'.inflection[1]
    IN  /\ \A i \in 1..Len(ps) :
              LET OnRepeat(w) == w.message = "Duplicate" /\ Spans(w, ps[i])
              IN  Count(NewWarnings, OnRepeat)
                      = IF IsRepeat(ps, i) /\ i <= FirstFailure(ps) THEN 1 ELSE 0
        /\ FirstFailure(ps) > Len(ps) =>
              /\ IsSome(result)
              /\ DOMAIN result[1].named_parameters
                     = {parse_parameter_name(ps[i])[1] :
                           i \in {j \in 1..Len(ps) : IsSome(ps[j].name)}}
              /\ \A n \in DOMAIN result[1].named_parameters :
                    result[1].named_parameters[n] = parse_text(ps[LastOf(ps, n)].value)[1]

(* C14: in parse_template a repeated parameter name does not reject the    *)
(* template: when every parameter's name and value is plain text the       *)
(* template record is returned and the entry of each name holds the value  *)
(* of the name's last occurrence; each repeat met before the function ends *)
(* receives exactly one Duplicate warning, and no other parameter receives *)
(* one.                                                                    *)
C14_RepeatedParameter == [][TemplateParsed => TemplateResult]_vars

C14_Witness ==
    /\ Running("parse_inflection")
    /\ IsSome(Top.inflection)
    /\ IsSome(Top.inflection[1])
    /\ Top.node_index = 1
    /\ Str("a") \in DOMAIN Top.inflection[1][1].named_parameters
    /\ Top.inflection[1][1].named_parameters[Str("a")] = Str("4")
    /\ LET ps == nodes[Position(Top)].parameters
           OnRepeat(w) == w.message = "Duplicate" /\ (Spans(w, ps[3]) \/ Spans(w, ps[4]))
       IN  /\ Len(ps) = 4
           /\ Count(context.warnings, OnRepeat) = 2

----------------------------------------------------------------------------
(* A 'label'/'lb' template whose first parameter is unnamed text other     *)
(* than the code of the active language, and the place of a node's element *)
(* in its definition: lists add no element, every other node adds one.     *)
IsConflictingLabel(node) ==
    /\ node.type = "Template"
    /\ parse_text(node.nodes) \in {Some(Str("label")), Some(Str("lb"))}
    /\ node.parameters # <<>>
    /\ node.parameters[1].name = None
    /\ IsSome(parse_text(node.parameters[1].value))
    /\ IsSome(context.language)
    /\ parse_text(node.parameters[1].value)[1] # language_code(context.language[1])

ElementIndex(ns, j) ==
    Cardinality({i \in 1..j :
                    ns[i].type \notin {"DefinitionList", "OrderedList", "UnorderedList"}})

(* A step of phase 1 of parse_pos that parses the items of the first       *)
(* ordered list with parse_definition.                                     *)
DefinitionsParsed ==
    /\ stack # <<>> /\ stack' # <<>>
    /\ Len(stack') = Len(stack)
    /\ Top.fn = "parse_pos"
    /\ Top.phase = 1
    /\ Top.definitions = None
    /\ Top'.definitions # None

ConflictingLabels ==
    LET items == NodeAt(Top).items
    IN  \A k \in 1..Len(items) : \A j \in 1..Len(items[k].nodes) :
            LET ns == items[k].nodes
                Within(w) == /\ ns[j].start <= w.start
                             /\ w.end <= ns[j].end
                             /\ w.start < w.end
                Conflict(w) == /\ Spans(w, ns[j].parameters[1])
                               /\ w.message = "ValueConflicting"
                               /\ w.language = context.language
                definition == Top'.definitions[1][k].definition
            IN  IsConflictingLabel(ns[j]) =>
                    /\ Count(NewWarnings, Within) = 1
                    /\ Count(NewWarnings, Conflict) = 1
                    /\ Len(definition) = ElementIndex(ns, Len(ns))
                    /\ definition[ElementIndex(ns, j)] = FUnknown(RenderNode(ns[j]))

(* C15: a 'label'/'lb' template in a definition whose first parameter is   *)
(* unnamed text different from the code of the active section language     *)
(* yields exactly one warning, ValueConflicting, and its element in the    *)
(* definition is Unknown holding the source text of the whole template,    *)
(* not Labels.                                                             *)
C15_ConflictingLabel == [][DefinitionsParsed => ConflictingLabels]_vars

C15_Witness ==
    /\ Running("parse_pos")
    /\ IsSome(Top.definitions)
    /\ Top.node_index = 1
    /\ context.language = Some("En")
    /\ Len(nodes[Position(Top)].items) = 1
    /\ LET ns == nodes[Position(Top)].items[1].nodes
       IN  /\ Len(ns) = 2
           /\ ns[1].type = "Text"
           /\ IsConflictingLabel(ns[2])
           /\ parse_text(ns[2].parameters[1].value) = Some(Str("de"))
           /\ Top.definitions[1][1].definition[2].type = "Unknown"
           /\ Len(context.warnings) = 1
           /\ context.warnings[1].message = "ValueConflicting"

----------------------------------------------------------------------------
(* The 'Pronunciation' headings of one level in the section of heading h,  *)
(* the nodes of such a subsection (up to the next heading of any level),   *)
(* and whether a template of one of the names stands directly among the    *)
(* nodes of an item of an unordered list of the subsection.                *)
PronunciationHeadings(h, level) ==
    {p \in (h + 1)..(h + SectionLength(h)) :
        /\ IsHeading(nodes[p])
        /\ nodes[p].level = level
        /\ parse_text(nodes[p].nodes) = Some(Str("Pronunciation"))}

SubsectionNodes(p) ==
    {i \in (p + 1)..Len(nodes) : \A j \in (p + 1)..i : ~IsHeading(nodes[j])}

HasUnorderedList(p) == \E i \in SubsectionNodes(p) : nodes[i].type = "UnorderedList"

TemplateInList(p, names) ==
    \E i \in SubsectionNodes(p) :
        /\ nodes[i].type = "UnorderedList"
        /\ \E k \in 1..Len(nodes[i].items) : \E j \in 1..Len(nodes[i].items[k].nodes) :
              LET node == nodes[i].items[k].nodes[j]
              IN  /\ node.type = "Template"
                  /\ \E n \in names : parse_text(node.nodes) = Some(<<n>>)

FlagsMatch(entry, p) ==
    /\ entry.ipa <=> TemplateInList(p, {"IPA", "cs-IPA"})
    /\ entry.audio <=> TemplateInList(p, {"audio"})
    /\ entry.homophones <=> TemplateInList(p, {"homophones"})
    /\ entry.hyphenation <=> TemplateInList(p, {"hyphenation"})
    /\ entry.rhymes <=> TemplateInList(p, {"rhymes"})
    /\ LET Empty(w) == w.message = "SectionEmpty" /\ Spans(w, nodes[p])
       IN  Count(output[1].warnings, Empty) = IF HasUnorderedList(p) THEN 0 ELSE 1

OnlyPronunciation(h, level) == CHOOSE p \in PronunciationHeadings(h, level) : TRUE

(* C16: for a language section, and for a numbered etymology, with a       *)
(* single Pronunciation heading, each pronunciation flag of the resulting  *)
(* entry is true if and only if a template of the matching name occurs     *)
(* directly among the nodes of an item of an unordered list in that        *)
(* subsection, and the heading receives SectionEmpty if and only if the    *)
(* subsection contains no unordered list.                                  *)
C16_PronunciationFlags ==
    IsSome(output) =>
        \A k \in 1..Len(output[1].language_entries) :
            LET h == NthHeading(k)
                entry == output[1].language_entries[k]
            IN  /\ Cardinality(PronunciationHeadings(h, 3)) = 1 =>
                      FlagsMatch(entry.etymology_entry, OnlyPronunciation(h, 3))
                /\ Len(entry.etymology_entries) = Cardinality(NumberedHeadings(h))
                /\ \A e \in 1..Len(entry.etymology_entries) :
                      LET g == NthNumbered(h, e)
                      IN  Cardinality(PronunciationHeadings(g, 4)) = 1 =>
                              FlagsMatch(entry.etymology_entries[e],
                                         OnlyPronunciation(g, 4))

C16_Witness ==
    /\ IsSome(output)
    /\ Len(output[1].language_entries) = 1
    /\ Cardinality(PronunciationHeadings(1, 3)) = 1
    /\ LET entry == output[1].language_entries[1].etymology_entry
           p == OnlyPronunciation(1, 3)
       IN  /\ entry.audio /\ entry.ipa /\ entry.rhymes
           /\ ~entry.homophones /\ ~entry.hyphenation
           /\ Cardinality(SubsectionNodes(p)) = 3
           /\ \E i \in SubsectionNodes(p) :
                 /\ nodes[i].type = "UnorderedList"
                 /\ nodes[i].items[1].nodes # <<>>
                 /\ nodes[i].items[1].nodes[1].type = "OrderedList"

----------------------------------------------------------------------------
(* The level below which a heading ends the section a frame parses, and a  *)
(* step in which a section function returns to its caller.                 *)
BreakLevel(f) ==
    CASE f.fn = "parse_language" -> 3
      [] f.fn = "parse_etymology" -> 4
      [] f.fn = "parse_pos" -> f.heading_level

EndsBelow(node, level) == node.type = "Heading" /\ node.level < level

SectionReturns ==
    /\ stack # <<>>
    /\ IsSection(Top.fn)
    /\ Len(stack') = Len(stack) - 1

EndsAtHeading ==
    LET f == Top
        next == f.base + f.node_index + 1
    IN  /\ \A i \in (f.base + 1)..(next - 1) : ~EndsBelow(nodes[i], BreakLevel(f))
        /\ next <= Len(nodes) => EndsBelow(nodes[next], BreakLevel(f))
        /\ returned' = Some([fn |-> f.fn, base |-> f.base, count |-> next - 1 - f.base])
        /\ Top'.base + Top'.node_index + 1 = next
        /\ next <= Len(nodes) => visits'[next] = 0

(* C17: a section ends at the first heading of a level below that of its   *)
(* subsections and does not consume it: parse_language returns at a        *)
(* heading of level below 3, parse_etymology at one below 4, parse_pos at  *)
(* one below its heading_level (or at the end of the input); no earlier    *)
(* node of the section is such a heading, the returned count excludes the  *)
(* heading, and after the return the caller's cursor is on it.             *)
C17_EndsAtHeading == [][SectionReturns => EndsAtHeading]_vars

C17_Witness ==
    /\ IsSome(returned)
    /\ returned[1].fn = "parse_pos"
    /\ returned[1].count = 2
    /\ Running("parse_language")
    /\ HasNode(Top)
    /\ Position(Top) = returned[1].base + returned[1].count
    /\ NodeAt(Top).type = "Heading"
    /\ NodeAt(Top).level = 3
    /\ visits[Position(Top) + 1] = 0
    /\ nodes[Position(Top)].type = "Heading"
    /\ nodes[Position(Top)].level = 4

----------------------------------------------------------------------------
(* The presence flag a supplementary heading stands for, and the three     *)
(* kinds of step of parse_supplementary: its call (with the code before    *)
(* the loop), one iteration of the loop, and its return.                   *)
SupplementaryField(node) ==
    LET text == parse_text(node.nodes)
    IN  CASE text = Some(<<"Alternative forms">>) -> "alternative_forms"
          [] text = Some(<<"Anagrams">>) -> "anagrams"
          [] text = Some(<<"Antonyms">>) -> "antonyms"
          [] text = Some(<<"Derived terms">>) -> "derived_terms"
          [] text = Some(<<"Etymology">>) -> "etymology"
          [] text = Some(<<"Further reading">>) -> "further_reading"
          [] text = Some(<<"Hypernyms">>) -> "hypernyms"
          [] text = Some(<<"Hyponyms">>) -> "hyponyms"
          [] text = Some(<<"Related terms">>) -> "related_terms"
          [] text = Some(<<"Synonyms">>) -> "synonyms"
          [] text = Some(<<"Translations">>) -> "translations"

SupplementaryCalled ==
    /\ stack # <<>>
    /\ Len(stack') = Len(stack) + 1
    /\ Top'.fn = "parse_supplementary"

SupplementaryEntered ==
    LET heading == NodeAt(Top)
        field == SupplementaryField(heading)
    IN  /\ heading.type = "Heading"
        /\ NewWarnings = IF Top[field]
                         THEN <<[start |-> heading.start, end |-> heading.end,
                                 language |-> context.language,
                                 message |-> "Duplicate"]>>
                         ELSE <<>>
        /\ stack'[Len(stack)][field] = TRUE
        /\ Top'.heading = Position(Top) + 1
        /\ Top'.base + Top'.node_index = Top'.heading

SupplementaryIterates ==
    /\ stack # <<>>
    /\ Top.fn = "parse_supplementary"
    /\ Len(stack') = Len(stack)

SupplementaryConsumed ==
    LET node == NodeAt(Top)
    IN  /\ node.type # "Heading"
        /\ NewWarnings = <<[start |-> node.start, end |-> node.end,
                            language |-> context.language,
                            message |-> "Supplementary"]>>
        /\ Top'.node_index = Top.node_index + 1
        /\ visits'[Position(Top) + 1] = visits[Position(Top) + 1] + 1

SupplementaryReturns ==
    /\ stack # <<>>
    /\ Top.fn = "parse_supplementary"
    /\ Len(stack') = Len(stack) - 1

SupplementaryReturned ==
    LET f == Top
    IN  /\ NewWarnings = <<>>
        /\ f.node_index = Cardinality(SubsectionNodes(f.heading))
        /\ returned' = Some([fn |-> "parse_supplementary", base |-> f.base,
                             count |-> f.node_index])
        /\ Top'[SupplementaryField(nodes[f.heading])] = TRUE
        /\ Top'.base + Top'.node_index = f.heading + f.node_index
        /\ visits' = visits

(* C18: parse_supplementary consumes exactly the nodes up to, not          *)
(* including, the next heading of any level, adds exactly one              *)
(* Supplementary warning per consumed node and nothing else, and leaves    *)
(* the presence flag true; when the flag was already true it adds exactly  *)
(* one Duplicate warning on the heading, and none otherwise.               *)
C18_Supplementary ==
    [][/\ SupplementaryCalled => SupplementaryEntered
       /\ SupplementaryIterates => SupplementaryConsumed
       /\ SupplementaryReturns => SupplementaryReturned]_vars

C18_Witness ==
    /\ IsSome(returned)
    /\ returned[1].fn = "parse_supplementary"
    /\ returned[1].count = 1
    /\ Running("parse_language")
    /\ Top.anagrams
    /\ Position(Top) = returned[1].base + 1
    /\ LET Again(w) == w.message = "Duplicate" /\ Spans(w, nodes[returned[1].base])
           Consumed(w) == w.message = "Supplementary" /\ Spans(w, nodes[Position(Top)])
       IN  /\ Count(context.warnings, Again) = 1
           /\ Count(context.warnings, Consumed) = 1
           /\ parse_text(nodes[returned[1].base].nodes) = Some(<<"Anagrams">>)

----------------------------------------------------------------------------
(* The numbered etymology headings of a language section that repeat the   *)
(* text of an earlier one of the same section.                             *)
RepeatedNumbered(h) ==
    {g \in NumberedHeadings(h) :
        \E x \in NumberedHeadings(h) :
            x < g /\ parse_text(nodes[x].nodes) = parse_text(nodes[g].nodes)}

(* C19 as stated: when a numbered etymology heading occurs a second time   *)
(* in the same language section, the second occurrence is marked Duplicate *)
(* and no EtymologyEntry is appended to etymology_entries for it.          *)
C19_RepeatDiscarded ==
    IsSome(output) =>
        \A k \in 1..Len(output[1].language_entries) :
            LET h == NthHeading(k)
                entry == output[1].language_entries[k]
            IN  /\ Len(entry.etymology_entries)
                       = Cardinality(NumberedHeadings(h) \ RepeatedNumbered(h))
                /\ \A g \in RepeatedNumbered(h) :
                      \E i \in 1..Len(output[1].warnings) :
                          /\ output[1].warnings[i].message = "Duplicate"
                          /\ Spans(output[1].warnings[i], nodes[g])

----------------------------------------------------------------------------
(* The head templates among the nodes with indices in S, for the language *)
(* of the section.                                                         *)
HeadTemplates(S, language) ==
    {i \in S :
        /\ nodes[i].type = "Template"
        /\ IsSome(parse_text(nodes[i].nodes))
        /\ check_head_template_name(language, parse_text(nodes[i].nodes)[1])}

DuplicatesOn(i) ==
    LET OnNode(w) == w.message = "Duplicate" /\ Spans(w, nodes[i])
    IN  Count(context.warnings, OnNode)

FirstHeadOnly(heads) ==
    \A i \in heads : DuplicatesOn(i) = IF \E j \in heads : j < i THEN 1 ELSE 0

JustReturnedPos ==
    /\ IsSome(returned)
    /\ returned[1].fn = "parse_pos"
    /\ stack # <<>>
    /\ Top.fn \in {"parse_language", "parse_etymology"}
    /\ Position(Top) = returned[1].base + returned[1].count

(* C20: in phase 1 of parse_pos, once n >= 2 head templates have been met  *)
(* before the first heading the head is absent, and stays absent whatever  *)
(* follows, with exactly n-1 Duplicate warnings, one on each head template *)
(* after the first and none on the first; the PosEntry pushed for the      *)
(* section has no head.                                                    *)
C20_RepeatedHead ==
    /\ (stack # <<>> /\ Top.fn = "parse_pos" /\ Top.phase = 1 /\ IsSome(context.language)) =>
          LET heads == HeadTemplates((Top.heading + 1)..Position(Top), context.language[1])
          IN  /\ FirstHeadOnly(heads)
              /\ heads # {} => IsSome(Top.head)
              /\ Cardinality(heads) >= 2 => Top.head = Some(None)
    /\ (JustReturnedPos /\ IsSome(context.language)) =>
          LET p == returned[1].base
              heads == HeadTemplates(SubsectionNodes(p), context.language[1])
          IN  /\ FirstHeadOnly(heads)
              /\ Cardinality(heads) >= 2 => Last(Top.pos_entries).head = None

C20_Witness ==
    /\ JustReturnedPos
    /\ context.language = Some("En")
    /\ Cardinality(HeadTemplates(SubsectionNodes(returned[1].base), "En")) = 3
    /\ returned[1].count = 3
    /\ Last(Top.pos_entries).head = None
    /\ DuplicatesOn(returned[1].base + 1) = 0
    /\ DuplicatesOn(returned[1].base + 2) = 1
    /\ DuplicatesOn(returned[1].base + 3) = 1
    /\ nodes[returned[1].base + 1].parameters # <<>>
    /\ IsSome(parse_text(nodes[returned[1].base + 1].parameters[1].value))
    /\ IsSome(parse_text(nodes[returned[1].base + 3].parameters[1].value))

----------------------------------------------------------------------------
(* The offset at which the nodes between heading p and the next heading of *)
(* any level end, and the places in the warning list of the SectionEmpty   *)
(* warnings on heading p.                                                  *)
FirstPhaseEnd(p) ==
    IF SubsectionNodes(p) = {} THEN nodes[p].end
    ELSE nodes[p + Cardinality(SubsectionNodes(p))].end

HasOrderedList(p) == \E i \in SubsectionNodes(p) : nodes[i].type = "OrderedList"

EmptyMarks(p) ==
    {e \in 1..Len(context.warnings) :
        /\ context.warnings[e].message = "SectionEmpty"
        /\ Spans(context.warnings[e], nodes[p])}

EmptyMarkPlaced(p) ==
    /\ Cardinality(EmptyMarks(p)) = IF HasOrderedList(p) THEN 0 ELSE 1
    /\ \A e \in EmptyMarks(p) : \A i \in 1..Len(context.warnings) :
          LET w == context.warnings[i]
          IN  /\ (i # e /\ w.start >= nodes[p].start /\ w.start < FirstPhaseEnd(p))
                    => i < e
              /\ w.start >= FirstPhaseEnd(p) => i > e

(* C21: parse_pos emits SectionEmpty on the part-of-speech heading if and  *)
(* only if no ordered list occurs among the nodes between that heading and *)
(* the next heading of any level; the warning is not there during phase 1, *)
(* and from the start of phase 2 on it stands after every warning of       *)
(* phase 1 and before every warning of phase 2.                            *)
C21_SectionEmptyPlaced ==
    \A d \in 1..Len(stack) :
        stack[d].fn = "parse_pos" =>
            IF stack[d].phase = 1
            THEN EmptyMarks(stack[d].heading) = {}
            ELSE EmptyMarkPlaced(stack[d].heading)

C21_Witness ==
    /\ Running("parse_pos")
    /\ Top.phase = 2
    /\ Top.node_index = 2
    /\ Len(context.warnings) = 3
    /\ context.warnings[1].message = "Unrecognized"
    /\ Spans(context.warnings[1], nodes[Top.heading + 1])
    /\ context.warnings[2].message = "SectionEmpty"
    /\ Spans(context.warnings[2], nodes[Top.heading])
    /\ context.warnings[3].message = "Unrecognized"
    /\ Spans(context.warnings[3], nodes[Top.heading + 2])
    /\ nodes[Top.heading + 2].type = "Heading"

----------------------------------------------------------------------------
(* The recognized subsection headings a parse_pos frame has consumed, and  *)
(* those among them that repeat the text of an earlier one.                *)
PosSubsectionNames ==
    {"Antonyms", "Conjugation", "Declension", "Derived terms", "Hypernyms",
     "Hyponyms", "Related terms", "Synonyms", "Translations", "Usage notes"}

PosSubsections(f) ==
    {g \in (f.heading + 1)..(f.base + f.node_index) :
        /\ nodes[g].type = "Heading"
        /\ nodes[g].level = f.heading_level
        /\ \E n \in PosSubsectionNames : parse_text(nodes[g].nodes) = Some(<<n>>)}

RepeatedSubsections(f) ==
    {g \in PosSubsections(f) :
        \E x \in PosSubsections(f) :
            x < g /\ parse_text(nodes[x].nodes) = parse_text(nodes[g].nodes)}

(* C22 as stated: in phase 2 of parse_pos a second occurrence of           *)
(* Antonyms, Synonyms, Hypernyms, Hyponyms, Derived terms, Related terms,  *)
(* Translations, Conjugation, Declension or Usage notes within the same    *)
(* part-of-speech section is marked Duplicate.                             *)
C22_SingleOccurrence ==
    \A d \in 1..Len(stack) :
        (stack[d].fn = "parse_pos" /\ stack[d].phase = 2) =>
            \A g \in RepeatedSubsections(stack[d]) : DuplicatesOn(g) = 1

----------------------------------------------------------------------------
(* The new warnings on a node, and the formatting toggles among the nodes  *)
(* of the items of the list at the cursor.                                 *)
NewOn(node) ==
    {i \in 1..Len(NewWarnings) : Spans(NewWarnings[i], node)}

IsToggle(node) == node.type \in {"Bold", "Italic"}

Toggle(node) == [type |-> node.type]

TogglesBecomeElements ==
    LET items == NodeAt(Top).items
    IN  \A k \in 1..Len(items) : \A j \in 1..Len(items[k].nodes) :
            LET ns == items[k].nodes
            IN  IsToggle(ns[j]) =>
                    /\ Top'.definitions[1][k].definition[ElementIndex(ns, j)] = Toggle(ns[j])
                    /\ NewOn(ns[j]) = {}

(* C23 as stated: in parse_definition every formatting toggle node of a    *)
(* list item, bold as well as italic, becomes the corresponding inline     *)
(* element and produces no warning.                                        *)
C23_TogglesBecomeElements == [][DefinitionsParsed => TogglesBecomeElements]_vars

ItalicOnly ==
    LET items == NodeAt(Top).items
    IN  \A k \in 1..Len(items) : \A j \in 1..Len(items[k].nodes) :
            LET ns == items[k].nodes
                element == Top'.definitions[1][k].definition[ElementIndex(ns, j)]
            IN  /\ ns[j].type = "Italic" =>
                      /\ element = [type |-> "Italic"]
                      /\ NewOn(ns[j]) = {}
                /\ ns[j].type = "Bold" =>
                      /\ element = [type |-> "Unknown", value |-> <<"'''">>]
                      /\ Cardinality(NewOn(ns[j])) = 1
                      /\ \A i \in NewOn(ns[j]) : NewWarnings[i].message = "Unrecognized"

UsageNotesConsumed ==
    /\ stack # <<>>
    /\ Top.fn = "parse_usage_notes"
    /\ Len(stack') = Len(stack)

NonEmptyUpTo(items, k) == Cardinality({i \in 1..k : items[i].nodes # <<>>})

UsageNotesToggles ==
    LET node == NodeAt(Top)
    IN  /\ IsToggle(node) =>
              /\ Top'.usage_notes = Append(Top.usage_notes, Toggle(node))
              /\ NewWarnings = <<>>
        /\ node.type = "UnorderedList" =>
              \A k \in 1..Len(node.items) : \A j \in 1..Len(node.items[k].nodes) :
                  IsToggle(node.items[k].nodes[j]) =>
                      /\ Last(Top'.usage_notes).items[NonEmptyUpTo(node.items, k)][j]
                             = Toggle(node.items[k].nodes[j])
                      /\ NewOn(node.items[k].nodes[j]) = {}

(* C23, amended: in parse_definition an italic toggle of a list item       *)
(* becomes Flowing::Italic without a warning, while a bold toggle becomes  *)
(* an Unknown placeholder holding its source text with exactly one         *)
(* Unrecognized warning; in parse_usage_notes both toggles become the      *)
(* inline elements Bold and Italic without a warning.                      *)
C23_BoldUnknown ==
    [][/\ DefinitionsParsed => ItalicOnly
       /\ UsageNotesConsumed => UsageNotesToggles]_vars

C23_Witness ==
    /\ Running("parse_pos")
    /\ IsSome(Top.definitions)
    /\ Top.node_index = 1
    /\ Len(nodes[Position(Top)].items) = 1
    /\ LET ns == nodes[Position(Top)].items[1].nodes
       IN  /\ Len(ns) = 2
           /\ ns[1].type = "Bold"
           /\ ns[2].type = "Italic"
           /\ Top.definitions[1][1].definition
                  = <<[type |-> "Unknown", value |-> <<"'''">>], [type |-> "Italic"]>>
           /\ Len(context.warnings) = 1
           /\ context.warnings[1].message = "Unrecognized"
           /\ Spans(context.warnings[1], ns[1])

----------------------------------------------------------------------------
(* The new warnings whose range lies in the range of a node, and the       *)
(* ordered lists of a list item that follow an earlier ordered list of the *)
(* same item.                                                              *)
NewInside(node) ==
    {i \in 1..Len(NewWarnings) :
        /\ node.start <= NewWarnings[i].start
        /\ NewWarnings[i].end <= node.end
        /\ NewWarnings[i].start < NewWarnings[i].end}

LaterLists(ns) ==
    {j \in 1..Len(ns) :
        /\ ns[j].type = "OrderedList"
        /\ \E i \in 1..(j - 1) : ns[i].type = "OrderedList"}

LaterListsDiscarded ==
    LET items == NodeAt(Top).items
    IN  \A k \in 1..Len(items) :
            LET ns == items[k].nodes
            IN  /\ \A j \in LaterLists(ns) :
                      /\ Cardinality(NewInside(ns[j])) = 1
                      /\ \A i \in NewInside(ns[j]) :
                            /\ NewWarnings[i].message = "Duplicate"
                            /\ Spans(NewWarnings[i], ns[j])
                /\ LaterLists(ns) # {} => Top'.definitions[1][k].definitions = <<>>

(* C24: in parse_definition a second or later nested ordered list of a     *)
(* list item is marked with exactly one Duplicate warning and discarded:   *)
(* no warning is emitted for anything inside it and the item ends up with  *)
(* no sub-definitions from it.                                             *)
C24_LaterListDiscarded == [][DefinitionsParsed => LaterListsDiscarded]_vars

C24_Witness ==
    /\ Running("parse_pos")
    /\ IsSome(Top.definitions)
    /\ Top.node_index = 1
    /\ Len(nodes[Position(Top)].items) = 1
    /\ LET ns == nodes[Position(Top)].items[1].nodes
           Again(w) == w.message = "Duplicate" /\ Spans(w, ns[2])
       IN  /\ Len(ns) = 2
           /\ LaterLists(ns) = {2}
           /\ Len(ns[1].items) = 2
           /\ ns[2].items[1].nodes = <<>>
           /\ Top.definitions[1][1].definitions = <<>>
           /\ Count(context.warnings, Again) = 1
           /\ \A i \in 1..Len(context.warnings) : context.warnings[i].message # "Unrecognized"

----------------------------------------------------------------------------
(* Whether a Definition has the shape of the ordered lists of its list     *)
(* item: no sub-definitions for an item with no ordered list or with more  *)
(* than one, and otherwise one sub-definition per item of the item's only  *)
(* ordered list, each of the shape of its own item.                        *)
OrderedLists(ns) == {j \in 1..Len(ns) : ns[j].type = "OrderedList"}

RECURSIVE Mirrors(_, _)
Mirrors(definition, item) ==
    LET lists == OrderedLists(item.nodes)
    IN  IF Cardinality(lists) # 1
        THEN definition.definitions = <<>>
        ELSE LET list == item.nodes[CHOOSE j \in lists : TRUE]
             IN  /\ Len(definition.definitions) = Len(list.items)
                 /\ \A i \in 1..Len(list.items) :
                       Mirrors(definition.definitions[i], list.items[i])

DefinitionsMirrorLists ==
    LET items == NodeAt(Top).items
    IN  /\ Len(Top'.definitions[1]) = Len(items)
        /\ \A k \in 1..Len(items) : Mirrors(Top'.definitions[1][k], items[k])

----------------------------------------------------------------------------
(* The number of items of the lists of one type directly in a sequence of  *)
(* nodes, and whether a Definition counts the unordered and definition     *)
(* lists of its list item without parsing them, down the sub-definitions.  *)
(* A list item spans its nodes, so the Empty warning of an item that holds *)
(* nothing but one list has the range of that list.                        *)
RECURSIVE ItemCount(_, _)
ItemCount(ns, type) ==
    IF ns = <<>> THEN 0
    ELSE (IF Head(ns).type = type THEN Len(Head(ns).items) ELSE 0)
         + ItemCount(Tail(ns), type)

RECURSIVE Supplemented(_, _)
Supplemented(definition, item) ==
    LET ns == item.nodes
        lists == OrderedLists(ns)
    IN  /\ definition.quotations = ItemCount(ns, "UnorderedList")
        /\ definition.examples = ItemCount(ns, "DefinitionList")
        /\ Len(definition.definition) = ElementIndex(ns, Len(ns))
        /\ \A j \in 1..Len(ns) :
              ns[j].type \in {"DefinitionList", "UnorderedList"} =>
                  /\ Cardinality({i \in NewInside(ns[j]) :
                                     NewWarnings[i].message = "Supplementary"}) = 1
                  /\ \A i \in NewInside(ns[j]) :
                        \/ /\ NewWarnings[i].message = "Supplementary"
                           /\ Spans(NewWarnings[i], ns[j])
                        \/ /\ NewWarnings[i].message = "Empty"
                           /\ Spans(NewWarnings[i], item)
                           /\ definition.definition = <<>>
        /\ Cardinality(lists) = 1 =>
              LET list == ns[CHOOSE j \in lists : TRUE]
              IN  \A i \in 1..Len(list.items) :
                      Supplemented(definition.definitions[i], list.items[i])

ListsCounted ==
    LET items == NodeAt(Top).items
    IN  \A k \in 1..Len(items) : Supplemented(Top'.definitions[1][k], items[k])

(* C26: for every list item parse_definition returns quotations equal to   *)
(* the total number of items of the unordered lists directly in the item   *)
(* and examples equal to the total number of items of the definition lists *)
(* directly in the item; each such list gets exactly one Supplementary     *)
(* warning, nothing inside it is parsed (no warning lies inside it) and it *)
(* adds no element to the inline content.                                  *)
C26_ListsCounted == [][DefinitionsParsed => ListsCounted]_vars

C26_Witness ==
    /\ Running("parse_pos")
    /\ IsSome(Top.definitions)
    /\ Len(Top.definitions[1]) = 1
    /\ Top.definitions[1][1].quotations = 2
    /\ Top.definitions[1][1].examples = 2
    /\ Top.definitions[1][1].definition = <<>>
    /\ Len(context.warnings) = 3
    /\ \A i \in 1..2 : context.warnings[i].message = "Supplementary"

----------------------------------------------------------------------------
(* The new warnings whose range lies within the range of a node, empty     *)
(* ranges included, and the shape of a 'defdate' template.                 *)
NewWithin(node) ==
    {i \in 1..Len(NewWarnings) :
        node.start <= NewWarnings[i].start /\ NewWarnings[i].end <= node.end}

IsNamed(node, names) ==
    /\ node.type = "Template"
    /\ Len(node.nodes) = 1
    /\ node.nodes[1].type = "Text"
    /\ node.nodes[1].value \in {Str(n) : n \in names}

OneUnnamed(node) ==
    Len(node.parameters) = 1 /\ node.parameters[1].name = None

FlatText(ns) == \A i \in 1..Len(ns) : ns[i].type \in {"CharacterEntity", "Text"}

IsDate(element) == element.type = "DefinitionDate"

OneValueUnrecognized(element, node) ==
    /\ element = [type |-> "Unknown",
                  value |-> Slice(context.wiki_text, node.start, node.end)]
    /\ Cardinality(NewWithin(node)) = 1
    /\ \A i \in NewWithin(node) : NewWarnings[i].message = "ValueUnrecognized"

(* Whether every 'defdate' template among the nodes of the parsed items    *)
(* yields a DefinitionDate exactly when Accepted holds of it, and an       *)
(* Unknown placeholder with one ValueUnrecognized warning otherwise.       *)
DatesWhen(Accepted(_)) ==
    LET items == NodeAt(Top).items
    IN  \A k \in 1..Len(items) : \A j \in 1..Len(items[k].nodes) :
            LET ns == items[k].nodes
                element == Top'.definitions[1][k].definition[ElementIndex(ns, j)]
            IN  IsNamed(ns[j], {"defdate"}) =>
                    /\ IsDate(element) <=> Accepted(ns[j])
                    /\ ~IsDate(element) => OneValueUnrecognized(element, ns[j])

FlatDate(node) == OneUnnamed(node) /\ FlatText(node.parameters[1].value)

NonEmptyDate(node) ==
    /\ FlatDate(node)
    /\ ConcatValues(node.parameters[1].value) # <<>>

(* C27 as stated: a 'defdate' template yields a DefinitionDate element if  *)
(* and only if it has exactly one parameter, that parameter is unnamed and *)
(* its value holds only text and character-entity nodes; every other shape *)
(* yields an Unknown placeholder and exactly one ValueUnrecognized         *)
(* warning.                                                                *)
C27_FlatDate == [][DefinitionsParsed => DatesWhen(FlatDate)]_vars

(* C27, amended: a 'defdate' template yields a DefinitionDate element if   *)
(* and only if it has exactly one parameter, that parameter is unnamed and *)
(* its value holds only text and character-entity nodes and is not empty;  *)
(* every other shape, the empty value included, yields an Unknown          *)
(* placeholder and exactly one ValueUnrecognized warning.                  *)
C27_NonEmptyDate == [][DefinitionsParsed => DatesWhen(NonEmptyDate)]_vars

C27_Witness ==
    /\ Running("parse_pos")
    /\ IsSome(Top.definitions)
    /\ Top.node_index = 1
    /\ Len(nodes[Position(Top)].items) = 1
    /\ LET ns == nodes[Position(Top)].items[1].nodes
       IN  /\ Len(ns) = 1
           /\ IsNamed(ns[1], {"defdate"})
           /\ OneUnnamed(ns[1])
           /\ ns[1].parameters[1].value = <<>>
           /\ Top.definitions[1][1].definition
                  = <<[type |-> "Unknown", value |-> <<"{{", "defdate", "|", "}}">>]>>
           /\ Len(context.warnings) = 1
           /\ context.warnings[1].message = "ValueUnrecognized"
           /\ Spans(context.warnings[1], ns[1].parameters[1])

----------------------------------------------------------------------------
(* The values of a sequence in order of first occurrence, and the          *)
(* positions of a sequence whose value occurs earlier in it.               *)
RECURSIVE FirstOccurrences(_, _)
FirstOccurrences(values, i) ==
    IF i > Len(values) THEN <<>>
    ELSE (IF \E j \in 1..(i - 1) : values[j] = values[i] THEN <<>> ELSE <<values[i]>>)
         \o FirstOccurrences(values, i + 1)

Repeats(values) ==
    {i \in 1..Len(values) : \E j \in 1..(i - 1) : values[j] = values[i]}

LabelValues(node) ==
    [i \in 1..(Len(node.parameters) - 1) |-> ConcatValues(node.parameters[i + 1].value)]

DistinctLabels(element, node) ==
    LET values == LabelValues(node)
    IN  /\ element.labels # <<>>
        /\ \A a, b \in 1..Len(element.labels) :
              a # b => element.labels[a] # element.labels[b]
        /\ element.labels = FirstOccurrences(values, 1)
        /\ \A i \in 1..Len(values) :
              LET marks == {w \in NewWithin(node) :
                               Spans(NewWarnings[w], node.parameters[i + 1])}
              IN  IF i \in Repeats(values)
                  THEN /\ Cardinality(marks) = 1
                       /\ \A w \in marks : NewWarnings[w].message = "Duplicate"
                  ELSE marks = {}
        /\ Cardinality(NewWithin(node)) = Cardinality(Repeats(values))

OnlyLanguageCode(node) ==
    \/ node.parameters = <<>>
    \/ /\ OneUnnamed(node)
       /\ FlatText(node.parameters[1].value)
       /\ context.language # None
       /\ ConcatValues(node.parameters[1].value) = language_code(context.language[1])

EmptyLabels(element, node) ==
    /\ element = [type |-> "Unknown",
                  value |-> Slice(context.wiki_text, node.start, node.end)]
    /\ Cardinality(NewWithin(node)) = 1
    /\ \A w \in NewWithin(node) :
          /\ NewWarnings[w].message = "Empty"
          /\ Spans(NewWarnings[w], node)

LabelsDistinct ==
    LET items == NodeAt(Top).items
    IN  \A k \in 1..Len(items) : \A j \in 1..Len(items[k].nodes) :
            LET ns == items[k].nodes
                element == Top'.definitions[1][k].definition[ElementIndex(ns, j)]
            IN  IsNamed(ns[j], {"label", "lb"}) =>
                    /\ element.type = "Labels" => DistinctLabels(element, ns[j])
                    /\ OnlyLanguageCode(ns[j]) => EmptyLabels(element, ns[j])

(* C28: every Labels element produced by parse_labels holds at least one   *)
(* label and pairwise distinct labels, in order of first occurrence: each  *)
(* repeated label value gets exactly one Duplicate warning and is not      *)
(* added again; a label template with no parameters, or with the code of   *)
(* the active language as its only parameter, yields an Unknown            *)
(* placeholder with one Empty warning on the template.                     *)
C28_LabelsDistinct == [][DefinitionsParsed => LabelsDistinct]_vars

C28_Witness ==
    /\ Running("parse_pos")
    /\ IsSome(Top.definitions)
    /\ Top.node_index = 1
    /\ Len(nodes[Position(Top)].items) = 1
    /\ LET ns == nodes[Position(Top)].items[1].nodes
       IN  /\ Len(ns) = 1
           /\ IsNamed(ns[1], {"lb"})
           /\ Len(ns[1].parameters) = 6
           /\ Top.definitions[1][1].definition
                  = <<[type |-> "Labels", labels |-> <<<<"a">>, <<"b">>>>]>>
           /\ Len(context.warnings) = 3
           /\ \A i \in 1..3 :
                 /\ context.warnings[i].message = "Duplicate"
                 /\ Spans(context.warnings[i], ns[1].parameters[i + 3])

----------------------------------------------------------------------------
(* The steps of parse_inflection, and the templates among the nodes it has *)
(* consumed whose name is the active language code followed by the marker. *)
InflectionConsumes ==
    /\ stack # <<>>
    /\ Top.fn = "parse_inflection"
    /\ Len(stack') = Len(stack)
    /\ ~context'.panicked

InflectionReturns ==
    /\ stack # <<>>
    /\ Top.fn = "parse_inflection"
    /\ Len(stack') = Len(stack) - 1

Matching(f) ==
    {i \in (f.base + 1)..Position(f) :
        IsInflectionTemplate(context, nodes[i], f.template_name)}

OnlyWarning(node, message) ==
    NewWarnings = <<[start |-> node.start, end |-> node.end,
                     language |-> context.language, message |-> message]>>

NodesMarked ==
    LET f == Top
        node == NodeAt(f)
    IN  IF IsInflectionTemplate(context, node, f.template_name)
        THEN IF Matching(f) # {}
             THEN OnlyWarning(node, "Duplicate")
             ELSE NewOn(node) = {}
        ELSE OnlyWarning(node, "Unrecognized")

EmptyMarked ==
    IF Matching(Top) = {}
    THEN OnlyWarning(HeadingNode(Top), "SectionEmpty")
    ELSE NewWarnings = <<>>

ParsedTemplate(i) ==
    parse_template(context, parse_text(nodes[i].nodes)[1], nodes[i].parameters).out

FirstMatching(f) == CHOOSE i \in Matching(f) : \A j \in Matching(f) : i <= j

FirstTemplateKept ==
    Matching(Top) # {} =>
        /\ IsSome(ParsedTemplate(FirstMatching(Top)))
        /\ Top'.inflection
               = Append(Caller.inflection, ParsedTemplate(FirstMatching(Top))[1])

(* C29 as stated: in parse_inflection the first template whose name is the *)
(* active language code followed by the marker is kept and appended to the *)
(* inflection list of the part of speech; every further matching template  *)
(* is marked Duplicate; every non-matching node before the next heading is *)
(* marked Unrecognized; SectionEmpty is emitted on the heading exactly     *)
(* when no matching template occurs.                                       *)
C29_FirstKept ==
    [][/\ InflectionConsumes => NodesMarked
       /\ InflectionReturns => (FirstTemplateKept /\ EmptyMarked)]_vars

OnlyOneKept ==
    LET f == Top
        kept == /\ Cardinality(Matching(f)) = 1
                /\ IsSome(ParsedTemplate(FirstMatching(f)))
    IN  Top'.inflection
            = IF kept
              THEN Append(Caller.inflection, ParsedTemplate(FirstMatching(f))[1])
              ELSE Caller.inflection

(* C29, amended: parse_inflection appends a template to the inflection     *)
(* list of the part of speech only when exactly one template of the        *)
(* section matches (name = active language code followed by the marker)    *)
(* and parse_template accepts it; with two or more matching templates, or  *)
(* a rejected one, nothing is appended. Every matching template after the  *)
(* first is marked Duplicate, every non-matching node before the next      *)
(* heading is marked Unrecognized, and SectionEmpty is emitted on the      *)
(* heading exactly when no matching template occurs.                       *)
C29_OnlyOneKept ==
    [][/\ InflectionConsumes => NodesMarked
       /\ InflectionReturns => (OnlyOneKept /\ EmptyMarked)]_vars

C29_Witness ==
    /\ Running("parse_pos")
    /\ IsSome(returned)
    /\ returned[1].fn = "parse_inflection"
    /\ returned[1].count = 2
    /\ Top.inflection = <<>>
    /\ Len(context.warnings) = 1
    /\ context.warnings[1].message = "Duplicate"
    /\ Spans(context.warnings[1], nodes[Position(Top)])
    /\ IsInflectionTemplate(context, nodes[Position(Top) - 1], Str("-conj-"))
    /\ IsSome(ParsedTemplate(Position(Top) - 1))

----------------------------------------------------------------------------
(* The pronunciation flags, the flags held by the slot of a section, and   *)
(* the steps of parse_pronunciation.                                       *)
FlagNames == {"audio", "homophones", "hyphenation", "ipa", "rhymes"}

FlagTemplates(flag) == IF flag = "ipa" THEN {"IPA", "cs-IPA"} ELSE {flag}

Held(slot) ==
    IF IsSome(slot) THEN slot[1] ELSE [flag \in FlagNames |-> FALSE]

AtLeast(before, after) == \A flag \in FlagNames : before[flag] => after[flag]

ListTemplate(list, names) ==
    \E k \in 1..Len(list.items) : \E j \in 1..Len(list.items[k].nodes) :
        LET node == list.items[k].nodes[j]
        IN  /\ node.type = "Template"
            /\ \E n \in names : parse_text(node.nodes) = Some(<<n>>)

PronunciationCalled ==
    /\ stack # <<>>
    /\ Len(stack') = Len(stack) + 1
    /\ Top'.fn = "parse_pronunciation"

PronunciationConsumes ==
    /\ stack # <<>>
    /\ Top.fn = "parse_pronunciation"
    /\ Len(stack') = Len(stack)

PronunciationReturns ==
    /\ stack # <<>>
    /\ Top.fn = "parse_pronunciation"
    /\ Len(stack') = Len(stack) - 1

HeadingAgain ==
    /\ AtLeast(Held(Top.pronunciation), Top'.pronunciation)
    /\ IF IsSome(Top.pronunciation)
       THEN OnlyWarning(nodes[Top'.heading], "Duplicate")
       ELSE NewWarnings = <<>>

ListAgain ==
    LET f == Top
        node == NodeAt(f)
        earlier == \E i \in (f.base + 1)..Position(f) : nodes[i].type = "UnorderedList"
    IN  /\ AtLeast(f.pronunciation, Top'.pronunciation)
        /\ node.type = "UnorderedList" =>
              /\ IF earlier THEN OnlyWarning(node, "Duplicate") ELSE NewWarnings = <<>>
              /\ \A flag \in FlagNames :
                    Top'.pronunciation[flag]
                        <=> (f.pronunciation[flag] \/ ListTemplate(node, FlagTemplates(flag)))
        /\ node.type # "UnorderedList" => Top'.pronunciation = f.pronunciation

FlagsHandedBack == Top'.pronunciation = Some(Top.pronunciation)

SlotsKept ==
    \A d \in 1..Len(stack) :
        (/\ d <= Len(stack')
         /\ stack'[d].fn = stack[d].fn
         /\ stack'[d].base = stack[d].base
         /\ stack[d].fn \in {"parse_language", "parse_etymology"}
         /\ ~(d = Len(stack) /\ PronunciationCalled)) =>
            AtLeast(Held(stack[d].pronunciation), Held(stack'[d].pronunciation))

(* C30: pronunciation flags are monotone: once a flag is true, no later    *)
(* node, no second unordered list of the subsection and no repeated        *)
(* Pronunciation heading of the same section resets it; every unordered    *)
(* list after the first of a subsection and every repeated Pronunciation   *)
(* heading gets exactly one Duplicate warning, and the templates of such a *)
(* later list still turn their flags on.                                   *)
C30_FlagsMonotone ==
    [][/\ PronunciationCalled => HeadingAgain
       /\ PronunciationConsumes => ListAgain
       /\ PronunciationReturns => FlagsHandedBack
       /\ SlotsKept]_vars

C30_Witness ==
    /\ Running("parse_language")
    /\ IsSome(returned)
    /\ returned[1].fn = "parse_pronunciation"
    /\ Position(Top) = returned[1].base + returned[1].count
    /\ returned[1].count = 1
    /\ nodes[Position(Top)].type = "UnorderedList"
    /\ IsSome(Top.pronunciation)
    /\ Top.pronunciation[1].audio
    /\ Top.pronunciation[1].ipa
    /\ Len(context.warnings) = 1
    /\ context.warnings[1].message = "Duplicate"
    /\ Spans(context.warnings[1], nodes[returned[1].base])

----------------------------------------------------------------------------
(* The items of a list that hold nodes, and the unordered list that        *)
(* parse_usage_notes makes of the list at the cursor.                      *)
WithNodes(items) == {k \in 1..Len(items) : items[k].nodes # <<>>}

ListsFilled(usage_notes) ==
    \A e \in 1..Len(usage_notes) :
        usage_notes[e].type = "UnorderedList" =>
            /\ usage_notes[e].items # <<>>
            /\ \A k \in 1..Len(usage_notes[e].items) : usage_notes[e].items[k] # <<>>

EmptyItemsDropped ==
    LET node == NodeAt(Top)
        items == node.items
        empties == {i \in 1..Len(NewWarnings) : NewWarnings[i].message = "Empty"}
    IN  node.type = "UnorderedList" =>
            /\ Cardinality(empties) = Len(items) - Cardinality(WithNodes(items))
            /\ \A k \in 1..Len(items) :
                  items[k].nodes = <<>> =>
                      \E i \in empties : Spans(NewWarnings[i], items[k])
            /\ IF WithNodes(items) = {}
               THEN Top'.usage_notes = Top.usage_notes
               ELSE /\ Len(Top'.usage_notes) = Len(Top.usage_notes) + 1
                    /\ Last(Top'.usage_notes).type = "UnorderedList"
                    /\ Len(Last(Top'.usage_notes).items) = Cardinality(WithNodes(items))
                    /\ \A k \in WithNodes(items) :
                          Len(Last(Top'.usage_notes).items[NonEmptyUpTo(items, k)])
                              = Len(items[k].nodes)

NestedListsUnknown ==
    LET node == NodeAt(Top)
    IN  node.type = "UnorderedList" =>
            \A k \in 1..Len(node.items) : \A j \in 1..Len(node.items[k].nodes) :
                LET nested == node.items[k].nodes[j]
                IN  nested.type \in {"DefinitionList", "OrderedList", "UnorderedList"} =>
                        /\ Last(Top'.usage_notes).items[NonEmptyUpTo(node.items, k)][j]
                               = [type |-> "Unknown",
                                  value |-> Slice(context.wiki_text, nested.start,
                                                  nested.end)]
                        /\ Cardinality(NewInside(nested)) = 1
                        /\ \A i \in NewInside(nested) :
                              /\ NewWarnings[i].message = "Unrecognized"
                              /\ Spans(NewWarnings[i], nested)

(* C31: every UnorderedList element that parse_usage_notes puts in the     *)
(* output has at least one item and every item at least one element: each  *)
(* list item without nodes gets exactly one Empty warning and is dropped,  *)
(* a list whose items are all dropped adds no element, and a list nested   *)
(* in a list item is not recursed into but becomes an Unknown placeholder  *)
(* with one Unrecognized warning.                                          *)
C31_ListsFilled ==
    [][UsageNotesConsumed =>
          /\ ListsFilled(Top'.usage_notes)
          /\ EmptyItemsDropped
          /\ NestedListsUnknown]_vars

C31_Witness ==
    /\ Running("parse_usage_notes")
    /\ Top.node_index = 1
    /\ nodes[Position(Top)].type = "UnorderedList"
    /\ Len(nodes[Position(Top)].items) = 2
    /\ Len(Top.usage_notes) = 1
    /\ Top.usage_notes[1].type = "UnorderedList"
    /\ Len(Top.usage_notes[1].items) = 1
    /\ Len(Top.usage_notes[1].items[1]) = 3
    /\ Top.usage_notes[1].items[1][3].type = "Unknown"
    /\ Len(context.warnings) = 2
    /\ context.warnings[1].message = "Unrecognized"
    /\ context.warnings[2].message = "Empty"
    /\ Spans(context.warnings[2], nodes[Position(Top)].items[2])

----------------------------------------------------------------------------
(* The parameters parse_template accepts: a value of text and character    *)
(* entities only and, when named, a name of one text node.                 *)
ParameterAccepted(p) ==
    /\ FlatText(p.value)
    /\ IsSome(p.name) => (Len(p.name[1]) = 1 /\ p.name[1][1].type = "Text")

FirstRejected(ps) ==
    IF \A i \in 1..Len(ps) : ParameterAccepted(ps[i])
    THEN Len(ps) + 1
    ELSE CHOOSE i \in 1..Len(ps) : ~ParameterAccepted(ps[i]) /\ \A j \in 1..(i - 1) : ParameterAccepted(ps[j])

Rejection(p) ==
    IF IsSome(p.name) /\ ~(Len(p.name[1]) = 1 /\ p.name[1][1].type = "Text")
    THEN "Unrecognized"
    ELSE "ValueUnrecognized"

TemplateChecked ==
    LET ps == NodeAt(Top).parameters
        result == Top'.inflection[1]
        first == FirstRejected(ps)
        rejecting == {i \in 1..Len(NewWarnings) :
                         NewWarnings[i].message \in {"Unrecognized", "ValueUnrecognized"}}
    IN  /\ IsSome(result) <=> \A i \in 1..Len(ps) : ParameterAccepted(ps[i])
        /\ IsSome(result) =>
              /\ rejecting = {}
              /\ Len(result[1].unnamed_parameters)
                     = Cardinality({i \in 1..Len(ps) : ps[i].name = None})
        /\ ~IsSome(result) =>
              /\ rejecting = {Len(NewWarnings)}
              /\ Last(NewWarnings).message = Rejection(ps[first])
              /\ Spans(Last(NewWarnings), ps[first])
              /\ \A i \in 1..Len(NewWarnings) : NewWarnings[i].end <= ps[first].end

(* C32: parse_template returns a template record if and only if every      *)
(* unnamed parameter's value flattens to text, every named parameter's     *)
(* name is a single text node and every named parameter's value flattens   *)
(* to text; otherwise it returns absent with exactly one rejecting warning *)
(* (ValueUnrecognized for a value, Unrecognized for a name), placed on the *)
(* first offending parameter and emitted last, and no warning on any later *)
(* parameter.                                                              *)
C32_TemplateChecked == [][TemplateParsed => TemplateChecked]_vars

C32_Witness ==
    /\ Running("parse_inflection")
    /\ Top.inflection = Some(None)
    /\ Top.node_index = 1
    /\ LET ps == nodes[Position(Top)].parameters
       IN  /\ Len(ps) = 3
           /\ IsSome(ps[2].name)
           /\ ps[2].name[1][1].type = "Bold"
           /\ ~FlatText(ps[3].value)
           /\ Len(context.warnings) = 1
           /\ context.warnings[1].message = "Unrecognized"
           /\ Spans(context.warnings[1], ps[2])

----------------------------------------------------------------------------
(* The siblings of a language section and of a numbered etymology section  *)
(* that neither end the section nor open a recognized subsection.          *)
SectionLevel(f) == IF f.fn = "parse_language" THEN 3 ELSE 4

SubsectionTexts(f) ==
    {Str(n) : n \in PosNames}
    \cup (IF f.fn = "parse_language"
          THEN {Str("Alternative forms"), Str("Anagrams"), Str("Etymology"),
                Str("Etymology 1"), Str("Etymology 2"), Str("Etymology 3"),
                Str("Etymology 4"), Str("Further reading"), Str("Pronunciation")}
          ELSE {Str("Alternative forms"), Str("Pronunciation")})

OtherSibling(f, node) ==
    \/ node.type # "Heading"
    \/ node.level > SectionLevel(f)
    \/ /\ node.level = SectionLevel(f)
       /\ \A text \in SubsectionTexts(f) : parse_text(node.nodes) # Some(text)

NameIs(node, names) ==
    /\ node.type = "Template"
    /\ FlatText(node.nodes)
    /\ ConcatValues(node.nodes) \in {Str(n) : n \in names}

(* The text of a numbered etymology: the nodes before its first heading.   *)
InEtymologyText(f, node) ==
    /\ f.fn = "parse_etymology"
    /\ node.type # "Heading"
    /\ \A i \in (f.base + 1)..Position(f) : nodes[i].type # "Heading"

(* A step of parse_language or parse_etymology at such a sibling; the end  *)
(* of the text of an etymology at a heading consumes nothing.              *)
SiblingScanned ==
    /\ stack # <<>>
    /\ Top.fn \in {"parse_language", "parse_etymology"}
    /\ HasNode(Top)
    /\ OtherSibling(Top, NodeAt(Top))
    /\ ~(Top.fn = "parse_etymology" /\ Top.phase = 1 /\ IsHeading(NodeAt(Top)))

SkippedWith(message) ==
    /\ OnlyWarning(NodeAt(Top), message)
    /\ Len(stack') = Len(stack)
    /\ Top'.node_index = Top.node_index + 1

(* C33 as stated: in a language section and in a numbered etymology        *)
(* section every sibling that is neither a recognized subsection heading   *)
(* nor a section-ending heading receives exactly one Unrecognized warning  *)
(* and advances the cursor by exactly one node.                            *)
C33_AllUnrecognized == [][SiblingScanned => SkippedWith("Unrecognized")]_vars

IsSupplementarySibling(f, node) ==
    \/ /\ f.fn = "parse_language"
       /\ NameIs(node, {"number box", "was fwotd", "was wotd", "wikipedia"})
    \/ InEtymologyText(f, node)

(* C33, amended: such a sibling advances the cursor by exactly one node    *)
(* and receives exactly one warning: Supplementary for a 'number box',     *)
(* 'was fwotd', 'was wotd' or 'wikipedia' template of a language section   *)
(* and for every node of a numbered etymology before its first heading,    *)
(* Unrecognized for everything else.                                       *)
C33_OneWarningEach ==
    [][SiblingScanned =>
          SkippedWith(IF IsSupplementarySibling(Top, NodeAt(Top))
                      THEN "Supplementary" ELSE "Unrecognized")]_vars

C33_Witness ==
    /\ Running("parse_language")
    /\ Top.base = 1
    /\ Top.node_index = 2
    /\ NameIs(nodes[2], {"wikipedia"})
    /\ nodes[3].type = "Text"
    /\ Len(context.warnings) = 2
    /\ context.warnings[1].message = "Supplementary"
    /\ Spans(context.warnings[1], nodes[2])
    /\ context.warnings[2].message = "Unrecognized"
    /\ Spans(context.warnings[2], nodes[3])

----------------------------------------------------------------------------
(* The return of parse_etymology, and what the nodes of its section hold:  *)
(* a part-of-speech heading, etymology text, or a recognized subsection.   *)
EtymologyReturns ==
    /\ stack # <<>>
    /\ Top.fn = "parse_etymology"
    /\ Len(stack') = Len(stack) - 1

SectionHeading(f, texts) ==
    \E i \in (f.base + 1)..Position(f) :
        /\ nodes[i].type = "Heading"
        /\ nodes[i].level = 4
        /\ \E text \in texts : parse_text(nodes[i].nodes) = Some(Str(text))

HasPosSection(f) == SectionHeading(f, PosNames)

HasOtherContent(f) ==
    \/ Position(f) > f.base /\ nodes[f.base + 1].type # "Heading"
    \/ SectionHeading(f, {"Alternative forms", "Pronunciation"})

MarkedEmpty(f) ==
    \E i \in 1..Len(NewWarnings) :
        NewWarnings[i].message = "SectionEmpty" /\ Spans(NewWarnings[i], HeadingNode(f))

(* C34 as stated: a numbered etymology section is marked SectionEmpty only *)
(* when it has no part-of-speech entries and no recognized content at all: *)
(* with etymology text, an Alternative forms subsection or a Pronunciation *)
(* subsection but no part-of-speech section it is not marked.              *)
C34_EmptyWithoutContent ==
    [][EtymologyReturns =>
          (MarkedEmpty(Top) => (~HasPosSection(Top) /\ ~HasOtherContent(Top)))]_vars

(* C34, amended: a numbered etymology section is marked SectionEmpty, with *)
(* exactly one warning on its heading, exactly when it has no              *)
(* part-of-speech section, whether or not it holds etymology text, an      *)
(* Alternative forms subsection or a Pronunciation subsection; the entry   *)
(* appended for it then has no part-of-speech entries.                     *)
C34_EmptyWithoutPos ==
    [][EtymologyReturns =>
          /\ IF HasPosSection(Top)
             THEN NewWarnings = <<>>
             ELSE OnlyWarning(HeadingNode(Top), "SectionEmpty")
          /\ (Last(Top'.etymology_entries).pos_entries = <<>>) <=> ~HasPosSection(Top)]_vars

C34_Witness ==
    /\ Running("parse_language")
    /\ IsSome(returned)
    /\ returned[1].fn = "parse_etymology"
    /\ Position(Top) = returned[1].base + returned[1].count
    /\ Len(Top.etymology_entries) = 1
    /\ Top.etymology_entries[1].etymology
    /\ Top.etymology_entries[1].ipa
    /\ Top.etymology_entries[1].pos_entries = <<>>
    /\ Last(context.warnings).message = "SectionEmpty"
    /\ Spans(Last(context.warnings), nodes[returned[1].base])

----------------------------------------------------------------------------
(* The number of Unknown elements held by the parse: in the results the    *)
(* running functions have built so far and in the language entries.        *)
RECURSIVE Sum(_)
Sum(s) == IF s = <<>> THEN 0 ELSE Head(s) + Sum(Tail(s))

RECURSIVE UnknownCount(_)
UnknownCount(elements) ==
    Sum([k \in 1..Len(elements) |->
            CASE elements[k].type = "Unknown" -> 1
              [] elements[k].type = "NonGlossDefinition" ->
                     UnknownCount(elements[k].value)
              [] elements[k].type = "UnorderedList" ->
                     Sum([i \in 1..Len(elements[k].items) |->
                             UnknownCount(elements[k].items[i])])
              [] OTHER -> 0])

RECURSIVE DefinitionCount(_)
DefinitionCount(definitions) ==
    Sum([i \in 1..Len(definitions) |->
            UnknownCount(definitions[i].definition)
            + DefinitionCount(definitions[i].definitions)])

Unwrapped(option) == IF IsSome(option) THEN option[1] ELSE <<>>

PosCount(pos_entries) ==
    Sum([i \in 1..Len(pos_entries) |->
            DefinitionCount(pos_entries[i].definitions)
            + UnknownCount(Unwrapped(pos_entries[i].usage_notes))])

EtymologyCount(etymology_entries) ==
    Sum([j \in 1..Len(etymology_entries) |-> PosCount(etymology_entries[j].pos_entries)])

FrameCount(f) ==
    CASE f.fn = "parse_pos" ->
            DefinitionCount(Unwrapped(f.definitions))
            + UnknownCount(Unwrapped(Unwrapped(f.usage_notes)))
      [] f.fn = "parse_usage_notes" -> UnknownCount(f.usage_notes)
      [] f.fn = "parse_etymology" -> PosCount(f.pos_entries)
      [] f.fn = "parse_language" ->
            PosCount(f.pos_entries) + EtymologyCount(f.etymology_entries)
      [] OTHER -> 0

HeldIn(frames, entries) ==
    Sum([d \in 1..Len(frames) |-> FrameCount(frames[d])])
    + Sum([i \in 1..Len(entries) |->
              PosCount(entries[i].etymology_entry.pos_entries)
              + EtymologyCount(entries[i].etymology_entries)])

HeldUnknowns == HeldIn(stack, language_entries)

WarningsGrow ==
    /\ Len(context'.warnings) >= Len(context.warnings)
    /\ SubSeq(context'.warnings, 1, Len(context.warnings)) = context.warnings

(* C35: no content is silently unknown: a step creates at most as many     *)
(* Unknown elements as it appends warnings, so the number of Unknown       *)
(* elements held is at most the length of the warning list, and the        *)
(* warning list only grows: every step keeps the warnings it found, in     *)
(* order, also when a template is rejected after earlier parameters        *)
(* already produced warnings.                                              *)
C35_NoSilentUnknown ==
    [][/\ WarningsGrow
       /\ LET before == HeldUnknowns
              after == HeldIn(stack', language_entries')
          IN  /\ after - before <= Len(context'.warnings) - Len(context.warnings)
              /\ after <= Len(context'.warnings)]_vars

C35_Witness ==
    /\ Running("parse_pos")
    /\ IsSome(Top.definitions)
    /\ HeldUnknowns = 2
    /\ Len(context.warnings) = 2
    /\ \A i \in 1..2 : context.warnings[i].message = "Unrecognized"

----------------------------------------------------------------------------
(* The call and the return of parse_pos, and the part-of-speech entries of *)
(* the sections on the stack.                                              *)
PosCalled ==
    /\ stack # <<>>
    /\ Len(stack') = Len(stack) + 1
    /\ Top'.fn = "parse_pos"

PosReturns ==
    /\ stack # <<>>
    /\ Top.fn = "parse_pos"
    /\ Len(stack') = Len(stack) - 1

SharesPos(entries, pos) == {i \in 1..Len(entries) : entries[i].pos = pos}

RepeatMarkedOnce ==
    IF SharesPos(Top.pos_entries, Top'.pos) # {}
    THEN OnlyWarning(NodeAt(Top), "Duplicate")
    ELSE NewWarnings = <<>>

RepeatAppended ==
    /\ Len(Top'.pos_entries) = Len(Caller.pos_entries) + 1
    /\ SubSeq(Top'.pos_entries, 1, Len(Caller.pos_entries)) = Caller.pos_entries
    /\ Last(Top'.pos_entries).pos = Top.pos

EntriesKept ==
    \A d \in 1..Len(stack) :
        (/\ d <= Len(stack')
         /\ stack[d].fn \in {"parse_language", "parse_etymology"}
         /\ stack'[d].fn = stack[d].fn
         /\ stack'[d].base = stack[d].base) =>
            /\ Len(stack'[d].pos_entries) >= Len(stack[d].pos_entries)
            /\ SubSeq(stack'[d].pos_entries, 1, Len(stack[d].pos_entries))
                   = stack[d].pos_entries

(* C36: a repeated part-of-speech heading in the same language or          *)
(* etymology section keeps the earlier occurrences: the PosEntry values    *)
(* already recorded never change, exactly one Duplicate warning is placed  *)
(* on the repeated heading however many earlier entries share the part of  *)
(* speech, and the repeated section is parsed and appended as a further    *)
(* PosEntry with the same part of speech.                                  *)
C36_RepeatedPos ==
    [][/\ PosCalled => RepeatMarkedOnce
       /\ PosReturns => RepeatAppended
       /\ EntriesKept]_vars

C36_Witness ==
    /\ Running("parse_language")
    /\ IsSome(returned)
    /\ returned[1].fn = "parse_pos"
    /\ Len(Top.pos_entries) = 3
    /\ \A i \in 1..3 : Top.pos_entries[i].pos = "Noun"
    /\ IsSome(Top.pos_entries[1].head)
    /\ LET OnThird(w) == w.message = "Duplicate" /\ Spans(w, nodes[returned[1].base])
           Repeated(w) == w.message = "Duplicate"
       IN  /\ Count(context.warnings, OnThird) = 1
           /\ Count(context.warnings, Repeated) = 2

----------------------------------------------------------------------------
(* A step of phase 2 of parse_pos on the node at its cursor, the section's *)
(* end excluded.                                                           *)
PosExamines ==
    /\ stack # <<>> /\ stack' # <<>>
    /\ stack' # stack
    /\ Top.fn = "parse_pos"
    /\ Top.phase = 2
    /\ HasNode(Top)
    /\ ~(IsHeading(NodeAt(Top)) /\ NodeAt(Top).level < Top.heading_level)

(* The last heading of the section before the cursor. *)
LastHeading(f) ==
    LET before == {h \in (f.base + 1)..Position(f) : IsHeading(nodes[h])}
    IN  CHOOSE h \in before : \A x \in before : x <= h

IsRepeatedUsageNotes(f, h) ==
    /\ h \in UsageNotesHeadings(f)
    /\ \E x \in UsageNotesHeadings(f) : x < h

(* A heading phase 2 of parse_pos consumes alone: one below the section's  *)
(* level, or one whose text is none of the subsection names.               *)
IsSkippedHeading(f, h) ==
    \/ nodes[h].level > f.heading_level
    \/ \A n \in PosSubsectionNames : parse_text(nodes[h].nodes) # Some(Str(n))

UsageNotesRepeated ==
    (PosExamines /\ IsUsageNotesHeading(Top, NodeAt(Top))
                 /\ UsageNotesHeadings(Top) # {}) =>
        /\ OnlyWarning(NodeAt(Top), "Duplicate")
        /\ Len(stack') = Len(stack)
        /\ Top' = [Top EXCEPT !.node_index = @ + 1, !.usage_notes = Some(None)]
        /\ returned' = Some([fn |-> "parse_usage_notes",
                             base |-> Position(Top) + 1,
                             count |-> 0])

UsageNotesLost ==
    (PosReturns /\ Cardinality(UsageNotesHeadings(Top)) >= 2) =>
        /\ Len(Top'.pos_entries) = Len(Caller.pos_entries) + 1
        /\ Last(Top'.pos_entries).usage_notes = None

OtherNodeMarked(After(_, _)) ==
    (PosExamines /\ ~IsHeading(NodeAt(Top))) =>
        /\ OnlyWarning(NodeAt(Top), "Unrecognized")
        /\ Len(stack') = Len(stack)
        /\ Top' = [Top EXCEPT !.node_index = @ + 1]
        /\ \E h \in (Top.base + 1)..Position(Top) : IsHeading(nodes[h])
        /\ After(Top, LastHeading(Top))

AfterRepeatOrSkipped(f, h) == IsRepeatedUsageNotes(f, h) \/ IsSkippedHeading(f, h)

(* C37 as stated: a second 'Usage notes' heading in a part-of-speech       *)
(* section consumes no node beyond the heading, gets one Duplicate warning *)
(* and clears the slot, so the PosEntry's usage_notes is absent; the       *)
(* non-heading nodes after it are marked Unrecognized one at a time by     *)
(* phase 2 of parse_pos, and phase 2 examines a non-heading node only      *)
(* after such a repeated heading.                                          *)
C37_OnlyAfterRepeat ==
    [][UsageNotesRepeated /\ UsageNotesLost /\ OtherNodeMarked(IsRepeatedUsageNotes)]_vars

(* C37, amended: a second 'Usage notes' heading in a part-of-speech        *)
(* section consumes no node beyond the heading, gets one Duplicate warning *)
(* and clears the slot, so the PosEntry's usage_notes is absent; phase 2   *)
(* of parse_pos marks every non-heading node it examines Unrecognized, one *)
(* node at a time, and it examines one exactly when the last heading       *)
(* before it is a repeated 'Usage notes' heading or a heading phase 2      *)
(* itself skipped as Unrecognized (a deeper heading, or one whose text is  *)
(* no subsection name).                                                    *)
C37_AfterRepeatOrSkipped ==
    [][UsageNotesRepeated /\ UsageNotesLost /\ OtherNodeMarked(AfterRepeatOrSkipped)]_vars

C37_Witness ==
    /\ InSecondPhase
    /\ Top.usage_notes = Some(None)
    /\ context.warnings # <<>>
    /\ Last(context.warnings).message = "Unrecognized"
    /\ \E h1, h2 \in UsageNotesHeadings(Top) :
          /\ h1 < h2
          /\ nodes[h1 + 1].type = "Text"
          /\ Position(Top) = h2 + 1
          /\ nodes[h2 + 1].type = "Text"
          /\ Spans(Last(context.warnings), nodes[h2 + 1])

----------------------------------------------------------------------------
(* The ordered lists of phase 1 of the section of f: those before the      *)
(* first heading after the section's own.                                  *)
PhaseOneLists(f) ==
    {i \in (f.base + 1)..(SubsectionEnd(f.base) - 1) : IsOrderedList(nodes[i])}

ListsBefore(f) == {i \in PhaseOneLists(f) : i <= Position(f)}

SectionEmptyOn(warnings, node) ==
    {i \in 1..Len(warnings) :
        warnings[i].message = "SectionEmpty" /\ Spans(warnings[i], node)}

(* A step of phase 1 of parse_pos on an ordered list after the first. *)
LaterListExamined ==
    /\ stack # <<>> /\ stack' # <<>>
    /\ stack' # stack
    /\ Top.fn = "parse_pos"
    /\ Top.phase = 1
    /\ HasNode(Top)
    /\ IsOrderedList(NodeAt(Top))
    /\ ListsBefore(Top) # {}

LaterListDropped ==
    LaterListExamined =>
        /\ OnlyWarning(NodeAt(Top), "Duplicate")
        /\ Len(stack') = Len(stack)
        /\ Top' = [Top EXCEPT !.node_index = @ + 1, !.definitions = Some(<<>>)]

PosHeadEnds ==
    /\ stack # <<>> /\ stack' # <<>>
    /\ Top.fn = "parse_pos"
    /\ Top.phase = 1
    /\ Len(stack') = Len(stack)
    /\ Top'.phase = 2

NotMarkedEmpty ==
    (PosHeadEnds /\ Cardinality(PhaseOneLists(Top)) >= 2) =>
        /\ NewWarnings = <<>>
        /\ Top'.definitions = Some(<<>>)

NoDefinitionsReturned ==
    (PosReturns /\ Cardinality(PhaseOneLists(Top)) >= 2) =>
        /\ Len(Top'.pos_entries) = Len(Caller.pos_entries) + 1
        /\ Last(Top'.pos_entries).definitions = <<>>
        /\ SectionEmptyOn(context'.warnings, HeadingNode(Top)) = {}

(* C38: when two or more ordered lists occur in phase 1 of a               *)
(* part-of-speech section, each ordered list after the first gets exactly  *)
(* one Duplicate warning and none of its items is parsed, the PosEntry of  *)
(* the section has an empty definitions list, and no SectionEmpty warning  *)
(* is put on the section's heading.                                        *)
C38_LaterListsDropped ==
    [][LaterListDropped /\ NotMarkedEmpty /\ NoDefinitionsReturned]_vars

C38_Witness ==
    /\ output = None
    /\ stack # <<>>
    /\ returned # None
    /\ returned[1].fn = "parse_pos"
    /\ Top.fn \in {"parse_language", "parse_etymology"}
    /\ Top.pos_entries # <<>>
    /\ Last(Top.pos_entries).definitions = <<>>
    /\ \E h \in 1..Len(nodes) :
          /\ h = returned[1].base
          /\ h + 3 <= Len(nodes)
          /\ IsOrderedList(nodes[h + 1])
          /\ nodes[h + 1].items # <<>>
          /\ IsOrderedList(nodes[h + 2])
          /\ IsOrderedList(nodes[h + 3])
          /\ SectionEmptyOn(context.warnings, nodes[h]) = {}
    /\ Len(SelectSeq(context.warnings, LAMBDA w : w.message = "Duplicate")) = 2

====
